---- MODULE Spec2Model ----
(***************************************************************************)
(* Sliding, adjustment-corrected history windows of zipline:               *)
(*   zipline/data/us_equity_loader.py  (SlidingWindow,                      *)
(*   USEquityHistoryLoader)                                                 *)
(* Dates are indices into env.trading_days.  The daily reader's calendar    *)
(* starts PreDays sessions into the env calendar and has CalLen sessions.   *)
(* Values are fixed-point numbers: Unit units make one thousandth, so that  *)
(* multiplying by the fixture's ratios (powers of two) is exact, as it is   *)
(* in float64, and rounding to 3 decimals is a real, lossy step.            *)
(***************************************************************************)
EXTENDS Integers, Sequences, FiniteSets, TLC

VARIABLES cache, built, last, now, cfg, bz

vars == <<cache, built, last, now, cfg, bz>>

-----------------------------------------------------------------------------
(* Bounds of the model *)

\* sessions of env.trading_days before the reader's first session
PreDays == 3
\* sessions in the daily reader's calendar
CalLen == 44
\* largest len(dts) requested
MaxSize == 3

\* self._prefetch_length
PrefetchLength == 40

NDays == PreDays + CalLen
Days == 0 .. (NDays - 1)
FirstSession == PreDays
LastIx == CalLen - 1

Min(a, b) == IF a < b THEN a ELSE b

\* calendar.get_loc(date): index of an env date in the reader's calendar
GetLoc(d) == d - PreDays
\* cal[ix]
CalDate(ix) == ix + PreDays

-----------------------------------------------------------------------------
(* Numbers *)

Unit == 2 * 8
NaN == -1

Ratio(n, d) == [num |-> n, den |-> d]

\* float multiplication by a ratio; NaN absorbs
Mul(v, r) == IF v = NaN THEN NaN ELSE (v * r.num) \div r.den

\* 1.0 / ratio
Reciprocal(r) == Ratio(r.den, r.num)

\* numpy.around(x, 3): to the nearest thousandth, halves to the even one
Around3(v) ==
    IF v = NaN THEN NaN
    ELSE LET q == v \div Unit
             rem == v % Unit
         IN  IF 2 * rem < Unit THEN q * Unit
             ELSE IF 2 * rem > Unit THEN (q + 1) * Unit
             ELSE IF q % 2 = 0 THEN q * Unit ELSE (q + 1) * Unit

AroundArray(a) == [r \in 1 .. Len(a) |-> [c \in 1 .. Len(a[r]) |-> Around3(a[r][c])]]

-----------------------------------------------------------------------------
(* Collaborators' data: the bar reader and the adjustment reader *)

Sids == {1, 2}
Fields == {"close", "volume"}

\* the raw bar of asset sid on env date d, in thousandths times Unit
RawValue(field, d, sid) ==
    IF field = "volume" THEN Unit * 1000 * (10 * sid + d + 1)
    ELSE Unit * (100 * sid + d)

\* getattr(USEquityPricing, field): a column object, never the field's name
Column(field) == IF field = "volume" THEN "USEquityPricing.volume"
                 ELSE "USEquityPricing.close"

\* hasattr(USEquityPricing, field)
HasColumn(field) == field \in Fields

ColumnField(col) == IF col = "USEquityPricing.volume" THEN "volume" ELSE "close"

\* load_raw_arrays([col], first, last, assets)[0]: rows = sessions, columns =
\* assets in the order given
LoadRawArrays(col, first_ix, last_ix, assets) ==
    [r \in 1 .. (last_ix - first_ix + 1) |->
        [c \in 1 .. Len(assets) |->
            RawValue(ColumnField(col), CalDate(first_ix + r - 1), assets[c])]]

\* the sids the bar storage has no coverage for: load_raw_arrays raises for them
Uncovered == {3}

\* load_raw_arrays returns (the storage covers every requested asset)
SourceCovers(assets) == \A j \in 1 .. Len(assets) : assets[j] \notin Uncovered

SplitDay1 == FirstSession + 3
EventDay2 == FirstSession + 1

\* adjustments_reader.get_adjustments_for_sid(kind, sid): (date, ratio), ascending
GetAdjustmentsForSid(kind, sid) ==
    IF kind = "splits" /\ sid = 1 THEN << [dt |-> SplitDay1, ratio |-> Ratio(1, 2)] >>
    ELSE IF kind = "splits" /\ sid = 2 THEN << [dt |-> EventDay2, ratio |-> Ratio(2, 1)] >>
    ELSE IF kind = "mergers" /\ sid = 2 THEN << [dt |-> EventDay2, ratio |-> Ratio(1, 2)] >>
    ELSE IF kind = "dividends" /\ sid = 2 THEN << [dt |-> EventDay2, ratio |-> Ratio(1, 4)] >>
    ELSE IF kind = "dividends" /\ sid = 3
    THEN << [dt |-> SplitDay1, ratio |-> Ratio(1, 4)], [dt |-> SplitDay1, ratio |-> Ratio(1, 2)] >>
    ELSE IF kind = "splits" /\ sid = 3 THEN << [dt |-> SplitDay1, ratio |-> Ratio(4, 1)] >>
    ELSE << >>

-----------------------------------------------------------------------------
(* Adjustment algebra and _get_adjustments_in_range *)

\* Float64Multiply(first_row, last_row, first_col, last_col, value); 0-based, closed
Float64Multiply(first_row, last_row, first_col, last_col, value) ==
    [first_row |-> first_row, last_row |-> last_row,
     first_col |-> first_col, last_col |-> last_col, value |-> value]

\* adjustment.mutate(data): data[first_row:last_row + 1, first_col:last_col + 1] *= value
Mutate(data, adj) ==
    [r \in 1 .. Len(data) |->
        [c \in 1 .. Len(data[r]) |->
            IF /\ adj.first_row + 1 <= r /\ r <= adj.last_row + 1
               /\ adj.first_col + 1 <= c /\ c <= adj.last_col + 1
            THEN Mul(data[r][c], adj.value)
            ELSE data[r][c]]]

RECURSIVE MutateAll(_, _)
MutateAll(data, adjs) ==
    IF adjs = << >> THEN data
    ELSE MutateAll(Mutate(data, Head(adjs)), Tail(adjs))

RECURSIVE SortedSeq(_)
SortedSeq(S) ==
    IF S = {} THEN << >>
    ELSE LET m == CHOOSE x \in S : \A y \in S : x <= y
         IN  << m >> \o SortedSeq(S \ {m})

\* the i of sids = {int(asset): i for i, asset in enumerate(assets)}
SidIndex(assets, sid) ==
    CHOOSE i \in 1 .. Len(assets) :
        /\ assets[i] = sid
        /\ \A j \in 1 .. Len(assets) : assets[j] = sid => j <= i

\* the pairs with corrections that run through the event's own row
KeptAdjustmentsThroughEvent(kept, i, first_ix, invert) ==
    [k \in 1 .. Len(kept) |->
        [end_loc |-> GetLoc(kept[k].dt) - first_ix,
         mult |-> Float64Multiply(0, GetLoc(kept[k].dt) - first_ix, i - 1, i - 1,
                                  IF invert THEN Reciprocal(kept[k].ratio)
                                  ELSE kept[k].ratio)]]

\* the (end_loc, mult) pairs one "for x in <kind>" loop appends for the events
\* it keeps, in order
KeptAdjustments(kept, i, first_ix, invert) ==
    [k \in 1 .. Len(kept) |->
        [end_loc |-> GetLoc(kept[k].dt) - first_ix,
         mult |-> Float64Multiply(0, GetLoc(kept[k].dt) - first_ix - 1, i - 1, i - 1,
                                  IF invert THEN Reciprocal(kept[k].ratio)
                                  ELSE kept[k].ratio)]]

\* the loop with the range closed at its start: start <= dt <= end
KindAdjustmentsClosedStart(kind, sid, i, first_ix, last_ix, invert) ==
    KeptAdjustments(
        SelectSeq(GetAdjustmentsForSid(kind, sid),
                  LAMBDA e : CalDate(first_ix) <= e.dt /\ e.dt <= CalDate(last_ix)),
        i, first_ix, invert)

\* one "for x in <kind>" loop: the events with start < dt <= end
KindAdjustments(kind, sid, i, first_ix, last_ix, invert) ==
    KeptAdjustments(
        SelectSeq(GetAdjustmentsForSid(kind, sid),
                  LAMBDA e : CalDate(first_ix) < e.dt /\ e.dt <= CalDate(last_ix)),
        i, first_ix, invert)

\* the body with the splits loop ahead of the mergers and dividends loops
SidAdjustmentsSplitsFirst(sid, i, first_ix, last_ix, field) ==
    KindAdjustments("splits", sid, i, first_ix, last_ix, field = "volume")
    \o (IF field # "volume"
        THEN KindAdjustments("mergers", sid, i, first_ix, last_ix, FALSE)
             \o KindAdjustments("dividends", sid, i, first_ix, last_ix, FALSE)
        ELSE << >>)

\* the body of "for sid, i in iteritems(sids)" for one sid at position i
SidAdjustments(sid, i, first_ix, last_ix, field) ==
    (IF field # "volume"
     THEN KindAdjustments("mergers", sid, i, first_ix, last_ix, FALSE)
          \o KindAdjustments("dividends", sid, i, first_ix, last_ix, FALSE)
     ELSE << >>)
    \o KindAdjustments("splits", sid, i, first_ix, last_ix, field = "volume")

RECURSIVE AllAdjustments(_, _, _, _, _)
AllAdjustments(assets, sids, first_ix, last_ix, field) ==
    IF sids = << >> THEN << >>
    ELSE SidAdjustments(Head(sids), SidIndex(assets, Head(sids)), first_ix, last_ix, field)
         \o AllAdjustments(assets, Tail(sids), first_ix, last_ix, field)

\* adjs[end_loc].append(mult), or adjs[end_loc] = [mult]: the dict of the pairs
AdjustmentsDict(all) ==
    [t \in {all[k].end_loc : k \in 1 .. Len(all)} |->
        LET mine == SelectSeq(all, LAMBDA x : x.end_loc = t)
        IN  [k \in 1 .. Len(mine) |-> mine[k].mult]]

\* _get_adjustments_in_range(assets, days, field), days = cal[first_ix .. last_ix]:
\* the dict end_loc -> list of Float64Multiply.  The dict of sids is walked in
\* ascending sid order (CPython's order for small int keys).
GetAdjustmentsInRange(assets, first_ix, last_ix, field) ==
    AdjustmentsDict(
        AllAdjustments(assets, SortedSeq({assets[j] : j \in 1 .. Len(assets)}),
                       first_ix, last_ix, field))

-----------------------------------------------------------------------------
(* AdjustedArrayWindow (zipline.lib._float64window): the cursor *)

SubRows(data, lo, hi) == [r \in 1 .. (hi - lo) |-> data[lo + r]]

RECURSIVE ApplyPending(_, _, _)
\* apply, in increasing trigger order, the lists of the given trigger rows
ApplyPending(data, adjustments, triggers) ==
    IF triggers = << >> THEN data
    ELSE ApplyPending(MutateAll(data, adjustments[Head(triggers)]),
                      adjustments, Tail(triggers))

\* Float64Window(array, dtype, adjs, offset, size)
CursorNew(data, adjustments, offset, window_length) ==
    [data |-> data, adjustments |-> adjustments,
     pending |-> DOMAIN adjustments,
     window_length |-> window_length,
     anchor |-> window_length + offset,
     max_anchor |-> Len(data),
     output |-> << >>]

\* the corrections a move of the frontier to `anchor` triggers: next_adj < anchor
Triggered(c, anchor) == {t \in c.pending : t < anchor}

\* the cursor once its data holds the corrections due at `anchor`
CursorAt(c, anchor, due, data) ==
    [c EXCEPT !.data = data,
              !.pending = c.pending \ due,
              !.anchor = anchor,
              !.output = SubRows(data, anchor - c.window_length, anchor)]

\* apply the corrections due
CursorApply(c, anchor, due) ==
    CursorAt(c, anchor, due, ApplyPending(c.data, c.adjustments, SortedSeq(due)))

\* materialize the window ending at `anchor` (exclusive)
CursorAdvance(c, anchor) == CursorApply(c, anchor, Triggered(c, anchor))

\* next(window): the first window, at the construction anchor
CursorNext(c) ==
    IF c.anchor > c.max_anchor
    THEN [ok |-> FALSE, err |-> "StopIteration", cursor |-> c]
    ELSE [ok |-> TRUE, err |-> "", cursor |-> CursorAdvance(c, c.anchor)]

\* window.seek(target)
CursorSeek(c, target) ==
    IF target < c.anchor
    THEN [ok |-> FALSE, err |-> "OutOfOrderSeek", cursor |-> c]
    ELSE IF target = c.anchor
    THEN [ok |-> TRUE, err |-> "", cursor |-> c]
    ELSE IF target > c.max_anchor
    THEN [ok |-> FALSE, err |-> "OutOfBounds", cursor |-> c]
    ELSE [ok |-> TRUE, err |-> "", cursor |-> CursorAdvance(c, target)]

-----------------------------------------------------------------------------
(* SlidingWindow *)

\* the fields __init__ sets, n being the outcome of next(window)
SlidingWindowFields(n, size, cal_start, offset) ==
    [ok |-> n.ok, err |-> n.err,
     block |-> [window |-> n.cursor,
                cal_start |-> cal_start,
                current |-> AroundArray(n.cursor.output),
                offset |-> offset,
                most_recent_ix |-> cal_start + size]]

\* SlidingWindow(window, size, cal_start, offset); the constructor takes the
\* first window from the cursor
SlidingWindowNew(cursor, size, cal_start, offset) ==
    SlidingWindowFields(CursorNext(cursor), size, cal_start, offset)

\* a failed seek that still records the end date asked for
SlidingWindowSeekRaisesMarked(block, end_ix, err) ==
    [ok |-> FALSE, err |-> err, block |-> [block EXCEPT !.most_recent_ix = end_ix],
     out |-> << >>, seeks |-> 1]

\* self.window.seek(target) raises: get is left before self.current and
\* self.most_recent_ix are assigned, and returns nothing
SlidingWindowSeekRaises(block, end_ix, err) ==
    [ok |-> FALSE, err |-> err, block |-> block, out |-> << >>, seeks |-> 1]

\* the tail of get with a cursor that keeps the corrections it applied scheduled
SlidingWindowSoughtKeepsPending(block, end_ix, s, cur) ==
    IF ~s.ok
    THEN SlidingWindowSeekRaises(block, end_ix, s.err)
    ELSE [ok |-> TRUE, err |-> "",
          block |-> [block EXCEPT !.window = [s.cursor EXCEPT
                                                 !.pending = block.window.pending],
                                  !.current = cur,
                                  !.most_recent_ix = end_ix],
          out |-> cur, seeks |-> 1]

\* the tail of get: s is the outcome of self.window.seek(target)
SlidingWindowSought(block, end_ix, s, cur) ==
    IF ~s.ok
    THEN SlidingWindowSeekRaises(block, end_ix, s.err)
    ELSE [ok |-> TRUE, err |-> "",
          block |-> [block EXCEPT !.window = s.cursor,
                                  !.current = cur,
                                  !.most_recent_ix = end_ix],
          out |-> cur, seeks |-> 1]

\* the seek path without numpy.around
SlidingWindowSeekUnrounded(block, end_ix, s) ==
    SlidingWindowSought(block, end_ix, s, s.cursor.output)

\* self.current = around(self.window.seek(target), 3)
SlidingWindowSeek(block, end_ix, s) ==
    SlidingWindowSought(block, end_ix, s, AroundArray(s.cursor.output))

\* SlidingWindow.get without the most_recent_ix short cut: it always seeks
SlidingWindowGetNoMemo(block, end_ix) ==
    SlidingWindowSeek(block, end_ix,
        CursorSeek(block.window, end_ix - block.cal_start - block.offset + 1))

\* SlidingWindow.get(end_ix): the block after the call, what it returns, and the
\* number of cursor seeks it made
SlidingWindowGet(block, end_ix) ==
    IF block.most_recent_ix = end_ix
    THEN [ok |-> TRUE, err |-> "", block |-> block, out |-> block.current, seeks |-> 0]
    ELSE SlidingWindowSeek(block, end_ix,
            CursorSeek(block.window, end_ix - block.cal_start - block.offset + 1))

-----------------------------------------------------------------------------
(* The arrays handed out, as objects: an array either is a view of the rows  *)
(* [lo, hi) of the cursor's buffer or owns its values                        *)

\* the array the cursor hands out: the trailing slice of its buffer
BufferView(c) ==
    [view |-> TRUE, lo |-> c.anchor - c.window_length, hi |-> c.anchor, values |-> << >>]

\* what a holder of the array a reads when the buffer is data
ReadArray(a, data) == IF a.view THEN SubRows(data, a.lo, a.hi) ELSE a.values

\* around(a, 3) with no out argument: a new array that owns the rounded values
AroundCopy(a, data) ==
    [view |-> FALSE, lo |-> 0, hi |-> 0, values |-> AroundArray(ReadArray(a, data))]

\* get handing the cursor's own array to the caller
CurrentObjectView(block) == BufferView(block.window)

\* the array object get returns: self.current, which is
\* around(self.window.seek(target), 3) or around(next(window), 3)
CurrentObject(block) == AroundCopy(BufferView(block.window), block.window.data)

-----------------------------------------------------------------------------
(* CachedObject (zipline.utils.cache) *)

CachedObject(value, expires) == [value |-> value, expires |-> expires]

\* CachedObject.unwrap(dt) raises Expired when dt is past the expiry
IsExpired(entry, dt) == dt > entry.expires

-----------------------------------------------------------------------------
(* USEquityHistoryLoader *)

AssetSet(assets) == {assets[j] : j \in 1 .. Len(assets)}

\* (assets_key, field, size)
CacheKey(assets, field, size) == << AssetSet(assets), field, size >>

\* the lookup with the Expired check left out
CacheHitNoExpiry(c, assets, end, size, field) ==
    CacheKey(assets, field, size) \in DOMAIN c

\* the lookup at the head of _ensure_sliding_window succeeds
CacheHit(c, assets, end, size, field) ==
    /\ CacheKey(assets, field, size) \in DOMAIN c
    /\ ~IsExpired(c[CacheKey(assets, field, size)], end)

\* full((fill_size, 1), nan) or full((fill_size, 1), 0)
PreArray(fill_size, field) ==
    [r \in 1 .. fill_size |-> << IF field # "volume" THEN NaN ELSE 0 >>]

\* fill_size of the before-data-start branch: size, or the length of
\* self._calendar.slice_indexer(start, end)
FillSize(end, size) ==
    IF end < FirstSession THEN size ELSE (GetLoc(end) + 1) - 0

\* end_ix of _ensure_sliding_window
EnsureEndIx(start, end) ==
    IF start < FirstSession /\ end < FirstSession THEN 0 ELSE GetLoc(end)

\* start_ix of _ensure_sliding_window
EnsureStartIx(start) == IF start < FirstSession THEN 0 ELSE GetLoc(start)

\* offset: td.get_loc(start) - td.get_loc(self._daily_reader._calendar[0]), or 0
EnsureOffset(start) == IF start < FirstSession THEN start - FirstSession ELSE 0

\* the prefetch horizon one session short
PrefetchEndIxShort(end_ix) == Min(end_ix + PrefetchLength - 1, CalLen - 1)

\* prefetch_end_ix = min(end_ix + self._prefetch_length, len(cal) - 1)
PrefetchEndIx(end_ix) == Min(end_ix + PrefetchLength, CalLen - 1)

\* array = concatenate([pre_array, array]) when pre_array is not None
WithPreArray(start, end, size, field, raw) ==
    IF start < FirstSession THEN PreArray(FillSize(end, size), field) \o raw ELSE raw

\* a store that drops every other key's entry
StoreWindowEvicting(c, key, sw, prefetch_end) ==
    IF ~sw.ok
    THEN [ok |-> FALSE, err |-> sw.err, cache |-> c, loads |-> 1, stored |-> FALSE]
    ELSE [ok |-> TRUE, err |-> "", loads |-> 1, stored |-> TRUE,
          cache |-> [k \in {key} |-> CachedObject(sw.block, prefetch_end)]]

\* self._daily_window_blocks[key] = CachedObject(block, prefetch_end); sw is the
\* outcome of the SlidingWindow constructor
StoreWindow(c, key, sw, prefetch_end) ==
    IF ~sw.ok
    THEN [ok |-> FALSE, err |-> sw.err, cache |-> c, loads |-> 1, stored |-> FALSE]
    ELSE [ok |-> TRUE, err |-> "", loads |-> 1, stored |-> TRUE,
          cache |-> [k \in DOMAIN c \cup {key} |->
                        IF k = key THEN CachedObject(sw.block, prefetch_end)
                        ELSE c[k]]]

\* a failing rebuild that empties the cache on its way out
BuildRaisesClearingCache(c, err, loads) ==
    [ok |-> FALSE, err |-> err, cache |-> << >>, loads |-> loads, stored |-> FALSE]

\* an exception raised by the rebuild after `loads` calls of load_raw_arrays
BuildRaises(c, err, loads) ==
    [ok |-> FALSE, err |-> err, cache |-> c, loads |-> loads, stored |-> FALSE]

\* a second read attempt after the first one failed
LoadFailureRetried(c) == BuildRaises(c, "SourceUnavailable", 2)

\* load_raw_arrays raises: nothing catches it
LoadFailure(c) == BuildRaises(c, "SourceUnavailable", 1)

\* the rebuild from the load on: days = cal[start_ix .. prefetch_end_ix]
BuildWindow(c, assets, start, end, size, field, start_ix, prefetch_end_ix) ==
    IF ~HasColumn(field)
    \* col = getattr(USEquityPricing, field)
    THEN BuildRaises(c, "AttributeError", 0)
    ELSE IF ~SourceCovers(assets)
    THEN LoadFailure(c)
    ELSE IF start < FirstSession /\ Len(assets) # 1
    \* concatenate([pre_array, array]) needs equal column counts
    THEN [ok |-> FALSE, err |-> "ValueError", cache |-> c, loads |-> 1,
          stored |-> FALSE]
    ELSE StoreWindow(c, CacheKey(assets, field, size),
            SlidingWindowNew(
                CursorNew(
                    WithPreArray(start, end, size, field,
                        LoadRawArrays(Column(field), start_ix, prefetch_end_ix, assets)),
                    GetAdjustmentsInRange(assets, start_ix, prefetch_end_ix,
                                          Column(field)),
                    0, size),
                size, start_ix, EnsureOffset(start)),
            CalDate(prefetch_end_ix))

\* self._calendar.get_loc(start) or self._calendar.get_loc(end) raises KeyError:
\* the date is past the last session of the reader's calendar
CalendarLookupFails(start, end) == start > CalDate(LastIx) \/ end > CalDate(LastIx)

\* the rebuild half of _ensure_sliding_window (cache miss or expired entry)
BuildSlidingWindow(c, assets, start, end, size, field) ==
    IF CalendarLookupFails(start, end) THEN BuildRaises(c, "KeyError", 0)
    ELSE BuildWindow(c, assets, start, end, size, field,
                     EnsureStartIx(start), PrefetchEndIx(EnsureEndIx(start, end)))

\* the same rebuild with another self._prefetch_length
BuildSlidingWindowWith(c, assets, start, end, size, field, prefetch_length) ==
    IF CalendarLookupFails(start, end) THEN BuildRaises(c, "KeyError", 0)
    ELSE BuildWindow(c, assets, start, end, size, field, EnsureStartIx(start),
                     Min(EnsureEndIx(start, end) + prefetch_length, CalLen - 1))

\* _ensure_sliding_window(assets, start, end, size, field): the cache after the
\* call (the block is cache[key].value), the number of load_raw_arrays calls and
\* whether a new entry was stored
EnsureSlidingWindow(c, assets, start, end, size, field) ==
    IF CacheHit(c, assets, end, size, field)
    THEN [ok |-> TRUE, err |-> "", cache |-> c, loads |-> 0, stored |-> FALSE]
    ELSE BuildSlidingWindow(c, assets, start, end, size, field)

\* end_ix of history()
HistoryEndIx(end, size) == IF end > FirstSession THEN GetLoc(end) ELSE size

\* return block.get(end_ix): g is the outcome of the get
HistoryReturn(e, key, g) ==
    [ok |-> g.ok, err |-> g.err, out |-> g.out,
     cache |-> [e.cache EXCEPT ![key].value = g.block],
     loads |-> e.loads, seeks |-> g.seeks, stored |-> e.stored]

\* history after block = self._ensure_sliding_window(...), whose outcome is e
HistoryGet(e, key, end_ix) ==
    IF ~e.ok
    THEN [ok |-> FALSE, err |-> e.err, out |-> << >>, cache |-> e.cache,
          loads |-> e.loads, seeks |-> 0, stored |-> e.stored]
    ELSE HistoryReturn(e, key, SlidingWindowGet(e.cache[key].value, end_ix))

\* history(assets, dts, field) with start = dts[0], end = dts[-1], size = len(dts)
HistoryOn(c, assets, start, end, size, field) ==
    HistoryGet(EnsureSlidingWindow(c, assets, start, end, size, field),
               CacheKey(assets, field, size), HistoryEndIx(end, size))

\* history(assets, dts, field) with dts the size sessions ending at end
HistoryCall(c, assets, end, size, field) ==
    HistoryOn(c, assets, end - size + 1, end, size, field)

-----------------------------------------------------------------------------
(* The loader driven by a simulation.                                       *)
(*   cache : self._daily_window_blocks                                      *)
(*   last  : the last history call: its arguments, what it returned or      *)
(*           raised, and what it did (loads, seeks, hit, stored, repeat)    *)
(*   built : for each cached window, the request that built it (cols is the *)
(*           asset order the arrays were loaded in), the end date last      *)
(*           served from it, and whether it replaced an expired entry       *)
(*   now   : the end date of the last call that returned                    *)
(*   cfg   : the fields, sizes and asset orders the simulation asks for     *)
(*   bz    : the call of a single function (further down); unused here      *)

\* how far the requested end date moves from the one last served
Steps == {0 - 1, 0, 1, PrefetchLength + 1}

AssetSeqs == { << 1 >>, << 1, 2 >>, << 2, 1 >> }

NoCall == [kind |-> "none", err |-> "", out |-> << >>, loads |-> 0, seeks |-> 0,
           hit |-> FALSE, stored |-> FALSE, repeat |-> FALSE, assets |-> << >>,
           start |-> 0, end |-> 0, size |-> 0, field |-> ""]

\* no dataset has been loaded
NoLoad == [kind |-> "none"]

\* one strategy: one field, one window size, one asset set in any order
Configs ==
    { [fields |-> {f}, sizes |-> {n}, seqs |-> {a \in AssetSeqs : AssetSet(a) = u}] :
        f \in Fields, n \in 1 .. MaxSize, u \in {{1}, {1, 2}} }

Init ==
    /\ cache = << >>
    /\ built = << >>
    /\ last = NoCall
    /\ now \in Days
    /\ cfg \in Configs
    /\ bz = NoLoad

\* the bookkeeping of one call whose outcome is h
Record(h, key, assets, start, end, size, field) ==
    /\ cache' = h.cache
    /\ built' = IF h.stored
                THEN [k \in DOMAIN built \cup {key} |->
                        IF k = key
                        THEN [cols |-> assets, start |-> start, end |-> end,
                              served |-> IF h.ok THEN end ELSE 0 - 1,
                              replaced |-> key \in DOMAIN cache]
                        ELSE built[k]]
                ELSE IF h.ok THEN [built EXCEPT ![key].served = end]
                ELSE built
    /\ last' = [kind |-> IF h.ok THEN "ok" ELSE "error", err |-> h.err,
                out |-> h.out, loads |-> h.loads, seeks |-> h.seeks,
                hit |-> h.loads = 0, stored |-> h.stored,
                repeat |-> /\ last.kind = "ok"
                           /\ CacheKey(last.assets, last.field, last.size) = key
                           /\ last.end = end,
                assets |-> assets, start |-> start, end |-> end,
                size |-> size, field |-> field]
    /\ now' = IF h.ok THEN end ELSE now
    /\ UNCHANGED << cfg, bz >>

History(assets, end, size, field) ==
    /\ end - size + 1 \in Days
    /\ end \in Days
    /\ Record(HistoryCall(cache, assets, end, size, field),
              CacheKey(assets, field, size), assets, end - size + 1, end, size, field)

Next ==
    \E assets \in cfg.seqs, field \in cfg.fields, size \in cfg.sizes, s \in Steps :
        History(assets, now + s, size, field)

Spec == Init /\ [][Next]_vars

-----------------------------------------------------------------------------
(* USEquityMinuteHistoryLoader *)

\* the attributes __init__ sets
MinuteLoaderAttrs ==
    {"env", "_minute_reader", "_adjustments_reader", "_minute_window_blocks",
     "_prefetch_length"}

\* the attributes _ensure_sliding_window and history read, in the order they
\* are first read
MinuteLoaderReads == << "_daily_window_blocks", "_daily_reader", "_calendar" >>

\* self._prefetch_length
MinutePrefetchLength == 5 * 390

\* _ensure_sliding_window of a loader with the attributes attrs: the body is the
\* daily one, reading self._daily_window_blocks, self._daily_reader and
\* self._calendar; an attribute the object lacks raises AttributeError, which
\* the except KeyError clause does not catch
MinuteEnsureSlidingWindow(attrs, c, assets, start, end, size, field) ==
    IF \E k \in 1 .. Len(MinuteLoaderReads) : MinuteLoaderReads[k] \notin attrs
    THEN BuildRaises(c, "AttributeError", 0)
    ELSE IF CacheHit(c, assets, end, size, field)
    THEN [ok |-> TRUE, err |-> "", cache |-> c, loads |-> 0, stored |-> FALSE]
    ELSE BuildSlidingWindowWith(c, assets, start, end, size, field,
                                MinutePrefetchLength)

\* history(assets, dts, field) of a loader with the attributes attrs
MinuteHistoryCall(attrs, c, assets, end, size, field) ==
    HistoryGet(MinuteEnsureSlidingWindow(attrs, c, assets, end - size + 1, end,
                                         size, field),
               CacheKey(assets, field, size), HistoryEndIx(end, size))

\* the minute loader driven by a simulation; cache is what its history calls
\* would keep
MinuteHistory(assets, end, size, field) ==
    /\ end - size + 1 \in Days
    /\ end \in Days
    /\ Record(MinuteHistoryCall(MinuteLoaderAttrs, cache, assets, end, size, field),
              CacheKey(assets, field, size), assets, end - size + 1, end, size, field)

MinuteNext ==
    \E assets \in cfg.seqs, field \in cfg.fields, size \in cfg.sizes, s \in Steps :
        MinuteHistory(assets, now + s, size, field)

MinuteSpec == Init /\ [][MinuteNext]_vars

-----------------------------------------------------------------------------
(* The daily loader driven outside its preconditions: no assets, a field   *)
(* USEquityPricing does not have, dts that skip a session, an asset the bar *)
(* storage cannot read, and an end date (env day NDays) past the last       *)
(* session of the reader's calendar.                                        *)

\* a field name USEquityPricing has no column for
FaultFields == {"adj_close"}

\* one caller: one field, one window size, the asset collections it passes and
\* the numbers of sessions its dts skip (0 for a contiguous run)
FaultConfigs ==
    { [fields |-> {f}, sizes |-> {n}, seqs |-> q, gaps |-> g] :
        f \in Fields \cup FaultFields, n \in 1 .. MaxSize,
        q \in { { << >> }, { << 1 >>, << 1, 3 >> } },
        g \in { {0}, {0, 1} } }

FaultInit ==
    /\ cache = << >>
    /\ built = << >>
    /\ last = NoCall
    /\ now \in Days
    /\ cfg \in FaultConfigs
    /\ bz = NoLoad

\* history(assets, dts, field) with dts[0] = start, dts[-1] = end, len(dts) = size
FaultHistory(assets, start, end, size, field) ==
    /\ start \in Days
    /\ end \in Days \cup {NDays}
    /\ Record(HistoryOn(cache, assets, start, end, size, field),
              CacheKey(assets, field, size), assets, start, end, size, field)

FaultNext ==
    \E assets \in cfg.seqs, field \in cfg.fields, size \in cfg.sizes,
       s \in Steps, gap \in cfg.gaps :
        /\ gap > 0 => size > 1
        /\ FaultHistory(assets, now + s - size + 1 - gap, now + s, size, field)

FaultSpec == FaultInit /\ [][FaultNext]_vars

-----------------------------------------------------------------------------
(* zipline/pipeline/loaders/blaze/core.py: get_deltas                      *)

\* no_deltas_rules = enum('warn', 'raise_', 'ignore')
NoDeltasRules == {"warn", "raise_", "ignore"}

\* the deltas argument: a blaze expression, the string 'auto', None, or any
\* other value
DeltasArgs == {"expr", "auto", "None", "other"}

\* what expr._child[(expr._name or '') + '_deltas'] does
Lookups == {"found", "ValueError", "AttributeError"}

\* a call that returns value
Returns(value, warned) == [returned |-> value, raised |-> "", warned |-> warned]

\* a call that raises
Raises(err) == [returned |-> "nothing", raised |-> err, warned |-> FALSE]

\* get_deltas that warns under every rule that does not raise
GetDeltasAlwaysWarns(lookup, deltas, no_deltas_rule) ==
    IF deltas = "expr" \/ deltas # "auto" THEN Returns(deltas, FALSE)
    ELSE IF lookup = "found" THEN Returns("sibling", FALSE)
    ELSE IF no_deltas_rule = "raise_" THEN Raises("ValueError")
    ELSE Returns("None", TRUE)

\* get_deltas(expr, deltas, no_deltas_rule), lookup being what the search for
\* the '<name>_deltas' sibling of expr does
GetDeltas(lookup, deltas, no_deltas_rule) ==
    IF deltas = "expr" \/ deltas # "auto" THEN Returns(deltas, FALSE)
    ELSE IF lookup = "found" THEN Returns("sibling", FALSE)
    ELSE IF no_deltas_rule = "raise_" THEN Raises("ValueError")
    ELSE IF no_deltas_rule = "warn" THEN Returns("None", TRUE)
    ELSE Returns("None", FALSE)

-----------------------------------------------------------------------------
(* zipline/pipeline/loaders/blaze/core.py: the reconciliation of a baseline *)
(* and a deltas table.  A table is a sequence of rows [ad, ts, sid, v]: the *)
(* asof_date, the timestamp (knowledge date), the sid (0 in a dataset with  *)
(* no sid column) and the value of the one data column (NaN when missing).  *)
(* Dates are day numbers; the data query time is None.                      *)

\* pd.NaT: it sorts before every date
NaT == 0 - 9

SetMax(S) == CHOOSE x \in S : \A y \in S : y <= x
SetMin(S) == CHOOSE x \in S : \A y \in S : x <= y

\* index.searchsorted(v, side) on a sorted sequence; the index is 0-based
SearchSorted(seq, v, side) ==
    IF side = "left"
    THEN Cardinality({i \in 1 .. Len(seq) : seq[i] < v})
    ELSE Cardinality({i \in 1 .. Len(seq) : seq[i] <= v})

RECURSIVE InsertByTs(_, _)
\* r placed behind the rows whose timestamp is not later than its own
InsertByTs(sorted, r) ==
    IF sorted = << >> THEN << r >>
    ELSE IF Head(sorted).ts <= r.ts
    THEN << Head(sorted) >> \o InsertByTs(Tail(sorted), r)
    ELSE << r >> \o sorted

RECURSIVE SortValues(_)
\* sort_values(df, TS_FIELD_NAME) / df.sort(TS_FIELD_NAME): rows with equal
\* timestamps keep their order (numpy sorts short arrays by insertion)
SortValues(df) ==
    IF df = << >> THEN << >>
    ELSE InsertByTs(SortValues(SubSeq(df, 1, Len(df) - 1)), df[Len(df)])

\* lower_dt of normalize_data_query_bounds(dates[0], dates[-1], None, None)
LowerDt(dates) == dates[1] - 1
\* upper_dt
UpperDt(dates) == dates[Len(dates)]

\* lower_for_col: the greatest timestamp <= lower_dt with a value (with sids:
\* the earliest over the sids of their greatest such timestamp); NaT if none
LowerOf(e, known, have_sids) ==
    IF known = {} THEN NaT
    ELSE IF have_sids
    THEN SetMin({ SetMax({e[k].ts : k \in {j \in known : e[j].sid = sid}}) :
                    sid \in {e[k].sid : k \in known} })
    ELSE SetMax({e[k].ts : k \in known})

LowerForCol(e, dates, have_sids) ==
    LowerOf(e, {k \in 1 .. Len(e) : e[k].ts <= LowerDt(dates) /\ e[k].v # NaN},
            have_sids)

\* e[(e[TS_FIELD_NAME] >= lower) & (e[TS_FIELD_NAME] <= upper_dt)]
WhereBetween(e, lower, lower_dt, upper_dt) ==
    SelectSeq(e, LAMBDA r : /\ r.ts >= (IF lower = NaT THEN lower_dt ELSE lower)
                            /\ r.ts <= upper_dt)

\* where(e)
Where(e, dates, have_sids) ==
    WhereBetween(e, LowerForCol(e, dates, have_sids), LowerDt(dates), UpperDt(dates))

\* collect_expr(e)
CollectExpr(e, dates, have_sids) == SortValues(Where(e, dates, have_sids))

\* the materialized deltas left as they are
DeltasOfAssetsUnfiltered(deltas, assets, have_sids) == deltas

\* materialized_deltas[materialized_deltas[SID_FIELD_NAME].isin(assets)]
DeltasOfAssets(deltas, assets, have_sids) ==
    IF deltas # << >> /\ have_sids
    THEN SelectSeq(deltas, LAMBDA r : r.sid \in AssetSet(assets))
    ELSE deltas

\* novel_idx with the left search in place of the right one
IsNovelLeftSearch(d, dates) ==
    SearchSorted(dates, d.ts, "left") - SearchSorted(dates, d.ad, "left") <= 1

\* novel_idx of overwrite_novel_deltas for one row of deltas
IsNovel(d, dates) ==
    SearchSorted(dates, d.ts, "right") - SearchSorted(dates, d.ad, "left") <= 1

\* a classification that folds every delta into the baseline
OverwriteNovelDeltasFoldsAll(baseline, deltas, dates) ==
    [sparse_output |-> SortValues(baseline \o deltas),
     non_novel_deltas |-> SelectSeq(deltas, LAMBDA d : ~IsNovel(d, dates))]

\* overwrite_novel_deltas(baseline, deltas, dates)
OverwriteNovelDeltas(baseline, deltas, dates) ==
    [sparse_output |->
        SortValues(baseline \o SelectSeq(deltas, LAMBDA d : IsNovel(d, dates))),
     non_novel_deltas |-> SelectSeq(deltas, LAMBDA d : ~IsNovel(d, dates))]

\* a grouping under the requested date before the timestamp
DateGroupPrevious(dates, ts) == SearchSorted(dates, ts, "left") - 1

\* last_in_date_group: the position in dates of the date a timestamp is
\* grouped under, dates[dates.searchsorted(ts)]
DateGroup(dates, ts) == SearchSorted(dates, ts, "left")

\* the rows of one (date, sid) group, in the table's order
GroupRows(df, dates, i, sid) ==
    SelectSeq(df, LAMBDA r : DateGroup(dates, r.ts) = i /\ r.sid = sid)

\* the last value of a sequence that is not null, else null
LastNotNull(xs, null) ==
    IF \A k \in 1 .. Len(xs) : xs[k] = null THEN null
    ELSE xs[SetMax({k \in 1 .. Len(xs) : xs[k] # null})]

\* groupby(idx).last() of the value column: the last value of the group that
\* is not missing
LastValue(rows) == LastNotNull([k \in 1 .. Len(rows) |-> rows[k].v], NaN)

\* groupby(idx).last() of the asof_date column
LastAsof(rows) == LastNotNull([k \in 1 .. Len(rows) |-> rows[k].ad], NaT)

RECURSIVE Ffill(_, _, _, _)

\* the reindexed rows without the forward fill
FfillMissing(df, dates, i, sid) ==
    IF i < 0 THEN NaN ELSE LastValue(GroupRows(df, dates, i, sid))

\* last_in_date_group(sparse_output, reindex=True) then ffill: row i, one sid
Ffill(df, dates, i, sid) ==
    IF i < 0 THEN NaN
    ELSE IF LastValue(GroupRows(df, dates, i, sid)) # NaN
    THEN LastValue(GroupRows(df, dates, i, sid))
    ELSE Ffill(df, dates, i - 1, sid)

\* column_view(dense_output[column_name].values): rows = dates, columns = assets
DenseOutput(df, dates, assets, have_sids) ==
    [i \in 1 .. Len(dates) |->
        [a \in 1 .. Len(assets) |->
            Ffill(df, dates, i - 1, IF have_sids THEN assets[a] ELSE 0)]]

\* Float64Overwrite(first_row, last_row, first_col, last_col, value)
Float64Overwrite(first_row, last_row, first_col, last_col, value) ==
    [first_row |-> first_row, last_row |-> last_row,
     first_col |-> first_col, last_col |-> last_col, value |-> value]

\* a check that takes every as-of date for a real one
IsNotActualDeltaNever(asof) == FALSE

\* if asof is pd.NaT: not an actual delta
IsNotActualDelta(asof) == asof = NaT

\* last_row that runs through the row of the next sparse date
OverwriteLastRowInclusive(dense_dates, sparse_dates, next_idx) ==
    IF next_idx = Len(sparse_dates) THEN Len(dense_dates) - 1
    ELSE SearchSorted(dense_dates, sparse_dates[next_idx + 1], "left")

\* last_row of overwrite_from_dates; next_idx = sparse_dates.searchsorted(asof, 'right')
OverwriteLastRow(dense_dates, sparse_dates, next_idx) ==
    IF next_idx = Len(sparse_dates) THEN Len(dense_dates) - 1
    ELSE SearchSorted(dense_dates, sparse_dates[next_idx + 1], "left") - 1

\* the tail of overwrite_from_dates without the first_row > last_row return
OverwriteRowsUnguarded(first_row, last_row, first_col, last_col, value) ==
    << Float64Overwrite(first_row, last_row, first_col, last_col, value) >>

\* the tail of overwrite_from_dates: nothing when first_row > last_row
OverwriteRows(first_row, last_row, first_col, last_col, value) ==
    IF first_row > last_row THEN << >>
    ELSE << Float64Overwrite(first_row, last_row, first_col, last_col, value) >>

\* overwrite_from_dates with the sides of the two searches exchanged
OverwriteFromDatesSidesSwapped(asof, dense_dates, sparse_dates, first_col, last_col, value) ==
    IF asof = NaT THEN << >>
    ELSE OverwriteRows(
            SearchSorted(dense_dates, asof, "right"),
            OverwriteLastRow(dense_dates, sparse_dates,
                             SearchSorted(sparse_dates, asof, "left")),
            first_col, last_col, value)

\* overwrite_from_dates(asof, dense_dates, sparse_dates, (first_col, last_col), value):
\* the overwrites it yields
OverwriteFromDates(asof, dense_dates, sparse_dates, first_col, last_col, value) ==
    IF IsNotActualDelta(asof) THEN << >>
    ELSE OverwriteRows(
            SearchSorted(dense_dates, asof, "left"),
            OverwriteLastRow(dense_dates, sparse_dates,
                             SearchSorted(sparse_dates, asof, "right")),
            first_col, last_col, value)

\* the index of sparse_deltas: the date groups the non-novel deltas fall in
GroupDates(deltas, dates) == {DateGroup(dates, deltas[k].ts) : k \in 1 .. Len(deltas)}

\* the dict keyed by the position of the group's as-of date
AdjustmentsFromDeltasNoSidsAtAsof(dense_dates, sparse_dates, assets, deltas) ==
    [t \in {SearchSorted(dense_dates, LastAsof(GroupRows(deltas, dense_dates, i, 0)),
                         "left") : i \in GroupDates(deltas, dense_dates)} |->
        OverwriteFromDates(
            dense_dates[t + 1], dense_dates, sparse_dates, 0, Len(assets) - 1,
            LastValue(GroupRows(deltas, dense_dates,
                SetMax({i \in GroupDates(deltas, dense_dates) :
                          SearchSorted(dense_dates,
                                       LastAsof(GroupRows(deltas, dense_dates, i, 0)),
                                       "left") = t}), 0)))]

\* adjustments_from_deltas_no_sids
AdjustmentsFromDeltasNoSids(dense_dates, sparse_dates, assets, deltas) ==
    [i \in GroupDates(deltas, dense_dates) |->
        OverwriteFromDates(LastAsof(GroupRows(deltas, dense_dates, i, 0)),
                           dense_dates, sparse_dates, 0, Len(assets) - 1,
                           LastValue(GroupRows(deltas, dense_dates, i, 0)))]

\* the position of the sid among the sorted sids in place of its position in
\* the requested assets
AssetIdxSorted(assets, sid) == Cardinality({a \in AssetSet(assets) : a < sid})

\* asset_idx[sid] of asset_idx = pd.Series(index=assets, data=np.arange(len(assets)))
AssetIdx(assets, sid) == (CHOOSE j \in 1 .. Len(assets) : assets[j] = sid) - 1

RECURSIVE SidOverwrites(_, _, _, _, _, _)
\* the overwrites of the sids, in the order of the unstacked columns, for the
\* rows of one date group
SidOverwrites(sids, i, dense_dates, sparse_dates, assets, deltas) ==
    IF sids = << >> THEN << >>
    ELSE OverwriteFromDates(
             LastAsof(GroupRows(deltas, dense_dates, i, Head(sids))),
             dense_dates, sparse_dates,
             AssetIdx(assets, Head(sids)), AssetIdx(assets, Head(sids)),
             LastValue(GroupRows(deltas, dense_dates, i, Head(sids))))
         \o SidOverwrites(Tail(sids), i, dense_dates, sparse_dates, assets, deltas)

\* adjustments_from_deltas_with_sids
AdjustmentsFromDeltasWithSids(dense_dates, sparse_dates, assets, deltas) ==
    [i \in GroupDates(deltas, dense_dates) |->
        SidOverwrites(SortedSeq({deltas[k].sid : k \in 1 .. Len(deltas)}), i,
                      dense_dates, sparse_dates, assets, deltas)]

\* sparse_output[TS_FIELD_NAME].values
TsColumn(df) == [k \in 1 .. Len(df) |-> df[k].ts]

\* idx = asset_idx[sid] raises KeyError for a sid of the deltas that is not in
\* the index of asset_idx, the requested assets
AssetIdxRaises(assets, deltas, have_sids) ==
    have_sids /\ \E k \in 1 .. Len(deltas) : deltas[k].sid \notin AssetSet(assets)

\* _load_dataset from overwrite_novel_deltas on; r is what that call returned.
\* (The rows of sparse_output keep their asof_date here, which the code drops
\* from the frame; nothing computed from sparse_output reads it.)  raised is
\* the exception the call ends with, "none" when it returns; a call that
\* raises has no adjustments.
LoadReconciled(r, baseline, deltas, dates, assets, have_sids) ==
    [baseline |-> baseline, deltas |-> deltas,
     sparse_output |-> r.sparse_output,
     non_novel_deltas |-> r.non_novel_deltas,
     dense_output |-> DenseOutput(r.sparse_output, dates, assets, have_sids),
     raised |-> IF AssetIdxRaises(assets, r.non_novel_deltas, have_sids)
                THEN "KeyError" ELSE "none",
     adjustments |->
        IF AssetIdxRaises(assets, r.non_novel_deltas, have_sids) THEN << >>
        ELSE IF have_sids
        THEN AdjustmentsFromDeltasWithSids(dates, TsColumn(r.sparse_output), assets,
                                           r.non_novel_deltas)
        ELSE AdjustmentsFromDeltasNoSids(dates, TsColumn(r.sparse_output), assets,
                                         r.non_novel_deltas)]

\* _load_dataset from the materialized tables on
LoadMaterialized(baseline, deltas, dates, assets, have_sids) ==
    LoadReconciled(OverwriteNovelDeltas(baseline, deltas, dates),
                   baseline, deltas, dates, assets, have_sids)

\* BlazeLoader._load_dataset(dates, assets, mask, columns) for one column of a
\* dataset whose baseline and deltas expressions hold the given rows
LoadDataset(expr, deltas, dates, assets, have_sids) ==
    LoadMaterialized(CollectExpr(expr, dates, have_sids),
                     DeltasOfAssets(CollectExpr(deltas, dates, have_sids),
                                    assets, have_sids),
                     dates, assets, have_sids)

-----------------------------------------------------------------------------
(* The blaze loader's functions applied to small datasets.                  *)
(*   bz : the call being made (kind "load", "get_deltas" or "overwrite",    *)
(*        with its arguments) and, once it has run, the call with what it   *)
(*        produced                                                          *)

\* the last day of the datasets
BzLastDay == 5
BzDays == 0 .. BzLastDay

\* baseline rows known on this day have no value
BzNullDay == BzLastDay - 1
\* baseline rows known on this day are about the day before
BzLateDay == BzLastDay - 2

BaselineRow(ts, sid) ==
    [ad |-> IF ts = BzLateDay THEN ts - 1 ELSE ts, ts |-> ts, sid |-> sid,
     v |-> IF ts = BzNullDay THEN NaN ELSE 10 * (ts + 1) + sid]

DeltaRow(ad, ts, sid) ==
    [ad |-> ad, ts |-> ts, sid |-> sid, v |-> 1000 + 100 * ad + 10 * ts + sid]

BaselineRows(sids) == {BaselineRow(ts, sid) : ts \in BzDays, sid \in sids}

\* deltas known lag days after the day they are about
DeltaRows(sids, lags) ==
    {DeltaRow(ts - g, ts, sid) : ts \in BzDays, g \in lags, sid \in sids}
        \cap {DeltaRow(ad, ts, sid) : ad \in BzDays, ts \in BzDays, sid \in sids}

UpToTwo(S) == {{a, b} : a \in S, b \in S}
UpToThree(S) == {{a, b, c} : a \in S, b \in S, c \in S}

RowKey(r) == 100 * r.ts + 10 * r.ad + r.sid

RECURSIVE TableOf(_)
\* the rows of a set as a table
TableOf(S) ==
    IF S = {} THEN << >>
    ELSE LET m == CHOOSE x \in S : \A y \in S : RowKey(x) <= RowKey(y)
         IN  << m >> \o TableOf(S \ {m})

Range(lo, hi) == [k \in 1 .. (hi - lo + 1) |-> lo + k - 1]

\* the dates the engine asks for
DateSeqs ==
    { Range(0, BzLastDay - 1), Range(1, BzLastDay), Range(1, BzLastDay - 1),
      << 0, 1, BzLastDay - 1, BzLastDay >>, << 1, 2, BzLastDay >>, << 2, 3 >> }

SidDateSeqs == { Range(0, BzLastDay - 1), << 1, 2, BzLastDay >> }

LoadArgs(b, d, dates, assets, have_sids) ==
    [kind |-> "load", expr |-> TableOf(b), deltas |-> TableOf(d), dates |-> dates,
     assets |-> assets, have_sids |-> have_sids]

\* datasets without a sid column
NoSidLoads ==
    { LoadArgs(b, d, dates, << 1, 2 >>, FALSE) :
        b \in UpToThree(BaselineRows({0})),
        d \in UpToTwo(DeltaRows({0}, {0, 1, 3})) \cup {{}},
        dates \in DateSeqs }

\* datasets with a sid column; sid 3 is not among the requested assets
SidLoads ==
    { LoadArgs(b, d, dates, << 2, 1 >>, TRUE) :
        b \in UpToTwo(BaselineRows({1, 2})),
        d \in UpToTwo(DeltaRows({1, 2, 3}, {0, 3})) \cup {{}},
        dates \in SidDateSeqs }

\* the baseline has a row by the end of the requested dates
HasData(args) ==
    \E k \in 1 .. Len(args.expr) : args.expr[k].ts <= UpperDt(args.dates)

GetDeltasArgs ==
    { [kind |-> "get_deltas", lookup |-> l, deltas |-> d, no_deltas_rule |-> r] :
        l \in Lookups, d \in DeltasArgs, r \in NoDeltasRules }

\* the sequences of at most two days, repeats included
SparseDateSeqs ==
    { << >> } \cup { << a >> : a \in BzDays }
    \cup { << a, b >> : a \in BzDays, b \in BzDays }

IsSortedDates(q) == \A k \in 1 .. (Len(q) - 1) : q[k] <= q[k + 1]

\* overwrite_from_dates called on its own: any as-of date (NaT, a day of the
\* datasets, the day after the last one), any requested dates, any sparse dates
OverwriteArgs ==
    { [kind |-> "overwrite", asof |-> a, dense_dates |-> dd, sparse_dates |-> sd,
       first_col |-> c[1], last_col |-> c[2], value |-> v] :
        a \in BzDays \cup {NaT, BzLastDay + 1}, dd \in DateSeqs,
        sd \in {q \in SparseDateSeqs : IsSortedDates(q)},
        c \in { << 0, 1 >>, << 1, 1 >> }, v \in {NaN, 1000} }

BlazeInit ==
    /\ cache = << >>
    /\ built = << >>
    /\ last = NoCall
    /\ now = 0
    /\ cfg = [fields |-> {}, sizes |-> {}, seqs |-> {}]
    /\ bz \in {a \in NoSidLoads \cup SidLoads : HasData(a)} \cup GetDeltasArgs
                \cup OverwriteArgs

LoadDatasetStep ==
    /\ bz.kind = "load"
    /\ bz' = [kind |-> "loaded", args |-> bz,
              out |-> LoadDataset(bz.expr, bz.deltas, bz.dates, bz.assets,
                                  bz.have_sids)]
    /\ UNCHANGED << cache, built, last, now, cfg >>

GetDeltasStep ==
    /\ bz.kind = "get_deltas"
    /\ bz' = [kind |-> "got_deltas", args |-> bz,
              out |-> GetDeltas(bz.lookup, bz.deltas, bz.no_deltas_rule)]
    /\ UNCHANGED << cache, built, last, now, cfg >>

OverwriteFromDatesStep ==
    /\ bz.kind = "overwrite"
    /\ bz' = [kind |-> "overwritten", args |-> bz,
              out |-> OverwriteFromDates(bz.asof, bz.dense_dates, bz.sparse_dates,
                                         bz.first_col, bz.last_col, bz.value)]
    /\ UNCHANGED << cache, built, last, now, cfg >>

BlazeNext == LoadDatasetStep \/ GetDeltasStep \/ OverwriteFromDatesStep

BlazeSpec == BlazeInit /\ [][BlazeNext]_vars

-----------------------------------------------------------------------------
(* The claims *)

LastKey == CacheKey(last.assets, last.field, last.size)
NextKey == CacheKey(last'.assets, last'.field, last'.size)

RECURSIVE MulAll(_, _)
MulAll(v, evs) == IF evs = << >> THEN v ELSE MulAll(Mul(v, Head(evs).ratio), Tail(evs))

\* the events of one kind dated in (lo, hi]
EventsIn(kind, sid, lo, hi) ==
    SelectSeq(GetAdjustmentsForSid(kind, sid), LAMBDA e : lo < e.dt /\ e.dt <= hi)

SplitsOn(sid, d) ==
    SelectSeq(GetAdjustmentsForSid("splits", sid), LAMBDA e : e.dt = d)

Reciprocals(evs) ==
    [k \in 1 .. Len(evs) |-> [dt |-> evs[k].dt, ratio |-> Reciprocal(evs[k].ratio)]]

\* what the specification promises for the bar of date d seen from end date T:
\* every correction dated in (d, T] folded in, then rounded to 3 decimals
PromisedValue(field, d, sid, T) ==
    Around3(IF field = "volume"
            THEN MulAll(RawValue(field, d, sid), Reciprocals(EventsIn("splits", sid, d, T)))
            ELSE MulAll(RawValue(field, d, sid),
                        EventsIn("mergers", sid, d, T) \o EventsIn("dividends", sid, d, T)
                        \o EventsIn("splits", sid, d, T)))

FillValue(field) == IF field = "volume" THEN 0 ELSE NaN

\* the returned array has len(dts) rows and len(assets) columns
Shape ==
    /\ Len(last.out) = last.size
    /\ \A i \in 1 .. Len(last.out) : Len(last.out[i]) = Len(last.assets)

\* end_ix of a rebuild as the claims state it: the calendar index of the
\* request's end, 0 when the end precedes the first session
ClaimedEndIx(end) == IF end < FirstSession THEN 0 ELSE GetLoc(end)

\* C1: no lookahead on corrections. After a successful history call for end
\* date T on a window built and asked for at or after the first available
\* session, with end dates that did not decrease, the corrections the cursor has
\* applied are exactly those of the window's schedule whose event date is <= T.
NoLookaheadOnCorrections ==
    ( /\ last.kind = "ok"
      /\ last.start >= FirstSession
      /\ built[LastKey].start >= FirstSession
      /\ built[LastKey].end <= last.end )
    => LET b == cache[LastKey].value
           w == b.window
       IN  \A t \in DOMAIN w.adjustments :
               (t \notin w.pending) <=> (CalDate(b.cal_start + t) <= last.end)

\* C2: split adjustment of prices. For a price field and asset 1, whose only
\* correction is the split of ratio 1/2 effective on SplitDay1, every returned
\* window that spans the split day holds raw * 1/2 (rounded to 3 decimals) on the
\* rows dated before it and the raw price on the rows dated on or after it.
SplitAdjustsPrices ==
    ( /\ last.kind = "ok"
      /\ last.field # "volume"
      /\ 1 \in AssetSet(last.assets)
      /\ last.start < SplitDay1
      /\ SplitDay1 <= last.end )
    => /\ Shape
       /\ \A i \in 1 .. last.size :
            LET d == last.start + i - 1
            IN  d >= FirstSession =>
                  last.out[i][SidIndex(last.assets, 1)] =
                     Around3(IF d < SplitDay1
                             THEN Mul(RawValue(last.field, d, 1), Ratio(1, 2))
                             ELSE RawValue(last.field, d, 1))

\* C3: volume adjustment. The corrections of every window built for the field
\* "volume" are split corrections only, each with the reciprocal of the split's
\* ratio, so that in a freshly built window the volumes of asset 1 before its
\* 2-for-1 split day are raw volume * 2.
VolumeUsesReciprocalSplits ==
    /\ \A k \in DOMAIN cache :
         (k[2] = "volume" /\ built[k].start >= FirstSession) =>
           LET b == cache[k].value
               adjs == b.window.adjustments
           IN  \A t \in DOMAIN adjs : \A n \in 1 .. Len(adjs[t]) :
                 LET a == adjs[t][n]
                     sid == built[k].cols[a.first_col + 1]
                     evs == SplitsOn(sid, CalDate(b.cal_start + t))
                 IN  \E m \in 1 .. Len(evs) : a.value = Reciprocal(evs[m].ratio)
    /\ ( /\ last.kind = "ok" /\ last.field = "volume" /\ last.stored
         /\ last.start >= FirstSession
         /\ 1 \in AssetSet(last.assets)
         /\ last.start < SplitDay1 /\ SplitDay1 <= last.end )
       => \A i \in 1 .. last.size :
            LET d == last.start + i - 1
            IN  d < SplitDay1 =>
                  last.out[i][SidIndex(last.assets, 1)] =
                     Mul(RawValue("volume", d, 1), Ratio(2, 1))

\* C4: before-data-start fill. A window returned for a request that starts k > 0
\* sessions before the first available session has fill (NaN, or 0 for volume)
\* on exactly the rows dated before the first session and, on the other rows,
\* the values of the requested dates: no row holds another date's data.
BeforeDataStartFill ==
    (last.kind = "ok" /\ last.start < FirstSession)
    => /\ Shape
       /\ \A i \in 1 .. last.size : \A j \in 1 .. Len(last.assets) :
            LET d == last.start + i - 1
            IN  last.out[i][j] =
                  IF d < FirstSession THEN FillValue(last.field)
                  ELSE PromisedValue(last.field, d, last.assets[j], last.end)

\* C5: output shape. A history call that has to build its window (so that no
\* earlier request can make it out of order) does not fail, and every array
\* history returns has len(dts) rows and len(assets) columns.
OutputShape ==
    /\ (last.kind # "none" /\ ~last.hit) => last.kind = "ok"
    /\ last.kind = "ok" => Shape

\* C6: prefetch transparency. Once a window was built for a request ending at
\* calendar index e, a call for the same key with end date in
\* (e, min(e + 40, last session)] is served from the cache with no
\* load_raw_arrays call and leaves the entry in place; a call with end date past
\* that expiry makes exactly one load_raw_arrays call.
PrefetchTransparency ==
    [][ (NextKey \in DOMAIN cache /\ built[NextKey].end >= FirstSession) =>
          LET e == built[NextKey].end
              x == CalDate(Min(GetLoc(e) + PrefetchLength, LastIx))
          IN  /\ (e < last'.end /\ last'.end <= x) =>
                    /\ last'.loads = 0
                    /\ last'.hit
                    /\ ~last'.stored
                    /\ built'[NextKey].end = e
                    /\ cache'[NextKey].expires = cache[NextKey].expires
              /\ (last'.end > x) => last'.loads = 1 ]_vars

\* a call at the very expiry date of a window built earlier is served from it
PrefetchTransparencyWitness ==
    /\ last.kind = "ok"
    /\ last.hit
    /\ last.loads = 0
    /\ built[LastKey].end >= FirstSession
    /\ built[LastKey].end < last.end
    /\ last.end = cache[LastKey].expires
    /\ last.end = CalDate(GetLoc(built[LastKey].end) + PrefetchLength)

\* C7: monotonic replay idempotence. A history call that repeats the key and end
\* date of the successful call just before it returns the same array, makes no
\* cursor seek and leaves the cached window (current, most_recent_ix, cursor) as
\* it was.
ReplayIdempotence ==
    [][ last'.repeat =>
          /\ last'.kind = "ok"
          /\ last'.out = last.out
          /\ last'.seeks = 0
          /\ cache' = cache ]_vars

\* a repeated request on a window that an earlier seek had advanced
ReplayIdempotenceWitness ==
    /\ last.repeat
    /\ last.kind = "ok"
    /\ last.seeks = 0
    /\ built[LastKey].end < last.end
    /\ cache[LastKey].value.window.anchor > last.size

\* C8: column order follows the current request. Column j of every returned
\* array holds assets[j] of the call that returned it: the asset order the cached
\* arrays were loaded in is the order of the current request.
ColumnOrderFollowsRequest ==
    last.kind = "ok" => built[LastKey].cols = last.assets

\* C9: out-of-order request. A call whose key has an unexpired cached window and
\* whose end date is earlier than the end date last served from that window
\* fails with the out-of-order-seek error and leaves the cache as it was.
OutOfOrderRequestFails ==
    [][ ( /\ NextKey \in DOMAIN cache
          /\ ~IsExpired(cache[NextKey], last'.end)
          /\ last'.end < built[NextKey].served )
        => ( /\ last'.kind = "error"
             /\ last'.err = "OutOfOrderSeek"
             /\ cache' = cache ) ]_vars

\* C10: cache validity. A history call reuses the stored window if and only if
\* the key has an entry and the requested end date is <= its expiry; otherwise it
\* rebuilds (one load), and every entry a rebuild stores expires at
\* calendar[min(end_ix + 40, last calendar index)] for that request's end_ix.
CacheValidity ==
    [][ LET valid == NextKey \in DOMAIN cache /\ last'.end <= cache[NextKey].expires
        IN  /\ valid <=> (last'.loads = 0 /\ ~last'.stored)
            /\ valid => /\ cache'[NextKey].expires = cache[NextKey].expires
                        /\ built'[NextKey].start = built[NextKey].start
                        /\ built'[NextKey].end = built[NextKey].end
                        /\ built'[NextKey].cols = built[NextKey].cols
            /\ ~valid => last'.loads = 1
            /\ last'.stored =>
                 cache'[NextKey].expires =
                    CalDate(Min(ClaimedEndIx(last'.end) + PrefetchLength, LastIx)) ]_vars

\* an expired entry was replaced by a rebuild, whose horizon the calendar's end cut
CacheValidityWitness ==
    /\ last.kind = "ok"
    /\ last.stored
    /\ built[LastKey].replaced
    /\ cache[LastKey].expires = CalDate(LastIx)
    /\ GetLoc(last.end) + PrefetchLength > LastIx

\* C11: a history call of a freshly constructed minute loader runs the daily
\* cache-miss/rebuild algorithm on the loader's own reader and cache with a
\* prefetch horizon of 5 * 390 bars: it has the outcome that algorithm has, and
\* when it succeeds the window is stored under (asset set, field, size) so that
\* the same request again is a cache hit.
MinuteLoaderBuildsAndCaches ==
    [][ LET a == last'.assets
            d == HistoryGet(
                    MinuteEnsureSlidingWindow(
                        MinuteLoaderAttrs \cup {MinuteLoaderReads[k] :
                                                   k \in 1 .. Len(MinuteLoaderReads)},
                        cache, a, last'.start, last'.end, last'.size, last'.field),
                    NextKey, HistoryEndIx(last'.end, last'.size))
        IN  /\ (last'.kind = "ok") = d.ok
            /\ last'.out = d.out
            /\ last'.loads = d.loads
            /\ cache' = d.cache
            /\ d.ok => CacheHit(cache', a, last'.end, last'.size, last'.field)
      ]_vars

\* C12: a history call with an empty asset collection, with non-contiguous
\* dates or with an unrecognized field name is rejected with an error before
\* load_raw_arrays (and so get_adjustments_for_sid) is called, and leaves the
\* cache unchanged.
FailFastConfigurationErrors ==
    [][ ( \/ last'.assets = << >>
          \/ ~HasColumn(last'.field)
          \/ last'.end - last'.start + 1 # last'.size )
        => ( /\ last'.kind = "error"
             /\ last'.loads = 0
             /\ cache' = cache )
      ]_vars

\* C13: within one history call load_raw_arrays is invoked at most once, and
\* when it fails the call raises that error: no second read, no substituted
\* result, nothing stored.
SourceFailureNotRetried ==
    [][ /\ last'.loads <= 1
        /\ (last'.loads >= 1 /\ ~SourceCovers(last'.assets))
             => ( /\ last'.kind = "error"
                  /\ last'.err = "SourceUnavailable"
                  /\ last'.out = << >>
                  /\ cache' = cache )
      ]_vars

\* a call whose read of the bar storage failed, after windows have been cached
SourceFailureNotRetriedWitness ==
    /\ last.err = "SourceUnavailable"
    /\ last.loads = 1
    /\ cache # << >>

\* a number with at most 3 decimals
IsRounded(v) == v = NaN \/ v % Unit = 0

\* C18: every array history returns through SlidingWindow.get (the first
\* window of the constructor, a fresh seek, or the memoized array) is rounded
\* to 3 decimal places.
ReturnedArraysAreRounded ==
    last.kind = "ok" =>
        \A r \in 1 .. Len(last.out) : \A c \in 1 .. Len(last.out[r]) :
            IsRounded(last.out[r][c])

\* a fresh seek returned an array that differs from the cursor's unrounded one
ReturnedArraysAreRoundedWitness ==
    /\ last.kind = "ok"
    /\ last.seeks = 1
    /\ LastKey \in DOMAIN cache
    /\ cache[LastKey].value.window.output # last.out
    /\ \E r \in 1 .. Len(last.out) : \E c \in 1 .. Len(last.out[r]) :
          ~IsRounded(cache[LastKey].value.window.output[r][c])

\* C20: over successful calls on one key with non-decreasing end dates, a call
\* served by a cached window returns the memoized array without seeking only
\* if the request last served from that window had the same end date.
MemoOnlyForSameEndDate ==
    [][ ( /\ last'.kind = "ok"
          /\ last'.seeks = 0
          /\ ~last'.stored
          /\ NextKey \in DOMAIN built
          /\ built[NextKey].served >= 0
          /\ last'.end >= built[NextKey].served )
        => built[NextKey].served = last'.end
      ]_vars

-----------------------------------------------------------------------------
(* The claims about the blaze loader *)

Loaded == bz.kind = "loaded"

Rows(df) == {df[k] : k \in 1 .. Len(df)}

\* the requested dates from a through b
DatesBetween(dates, a, b) == {k \in 1 .. Len(dates) : a <= dates[k] /\ dates[k] <= b}

\* C14 as stated: a delta is novel exactly when at most one baseline knowledge
\* date lies between its as-of-date and its knowledge date, and retroactive
\* otherwise.
NoveltyCountsBaselineDates ==
    Loaded =>
        \A d \in Rows(bz.out.deltas) :
            (d \notin Rows(bz.out.non_novel_deltas))
                <=> Cardinality({b.ts : b \in {x \in Rows(bz.out.baseline) :
                                                 d.ad <= x.ts /\ x.ts <= d.ts}}) <= 1

\* C14 amended: a delta is novel (folded into the merged baseline) exactly when
\* at most one of the requested dates lies between its as-of-date and its
\* knowledge date, both ends included, and retroactive (returned as non-novel)
\* otherwise.
NoveltyCountsRequestedDates ==
    Loaded =>
        \A d \in Rows(bz.out.deltas) :
            /\ (d \notin Rows(bz.out.non_novel_deltas))
                  <=> Cardinality(DatesBetween(bz.args.dates, d.ad, d.ts)) <= 1
            /\ (d \in Rows(bz.out.sparse_output))
                  <=> (d \notin Rows(bz.out.non_novel_deltas))

\* one load classifies a delta as novel and another as retroactive
NoveltyCountsRequestedDatesWitness ==
    /\ Loaded
    /\ \E d \in Rows(bz.out.deltas) :
          d \in Rows(bz.out.sparse_output) /\ d.ts > d.ad
    /\ bz.out.non_novel_deltas # << >>

\* the scenario of C15 with its first day on day s: five requested dates
\* s .. s + 4 (2014-01-06 .. 2014-01-10), a baseline known on s, s + 1 and
\* s + 2 (2014-01-06, -07, -08) and the one delta d, in a dataset with no sids
NoveltyScenario(s, d) ==
    /\ Loaded
    /\ ~bz.args.have_sids
    /\ bz.args.dates = Range(s, s + 4)
    /\ TsColumn(bz.args.expr) = << s, s + 1, s + 2 >>
    /\ bz.args.deltas = << d >>

\* the adjustments that hold one overwrite of rows lo .. hi with d's value,
\* scheduled at the row of the delta's knowledge date
OneOverwrite(d, lo, hi) ==
    (3 :> << Float64Overwrite(lo, hi, 0, Len(bz.args.assets) - 1, d.v) >>)

\* C15 as stated: the delta as-of 2014-01-06 known on 2014-01-09 is retroactive
\* and yields one overwrite from the row of 2014-01-06 through the row of the
\* day before 2014-01-08; the delta as-of 2014-01-08 known on 2014-01-09 is
\* novel, is folded into the baseline and yields no overwrite.
NoveltyScenarioAsStated ==
    \A s \in BzDays :
        /\ NoveltyScenario(s, DeltaRow(s, s + 3, 0)) =>
              /\ bz.out.non_novel_deltas = << DeltaRow(s, s + 3, 0) >>
              /\ bz.out.adjustments = OneOverwrite(DeltaRow(s, s + 3, 0), 0, 1)
        /\ NoveltyScenario(s, DeltaRow(s + 2, s + 3, 0)) =>
              /\ DeltaRow(s + 2, s + 3, 0) \in Rows(bz.out.sparse_output)
              /\ bz.out.non_novel_deltas = << >>
              /\ bz.out.adjustments = << >>

\* C15 amended: the delta as-of 2014-01-06 known on 2014-01-09 is retroactive
\* and yields one overwrite of the single row of 2014-01-06 (through the day
\* before 2014-01-07, the next baseline knowledge date); the delta as-of
\* 2014-01-08 known on 2014-01-09 is retroactive as well (two requested dates
\* lie between), is not folded into the baseline and yields one overwrite of
\* the rows of 2014-01-08 through 2014-01-10.
NoveltyScenarioAsComputed ==
    \A s \in BzDays :
        /\ NoveltyScenario(s, DeltaRow(s, s + 3, 0)) =>
              /\ bz.out.non_novel_deltas = << DeltaRow(s, s + 3, 0) >>
              /\ bz.out.sparse_output = bz.args.expr
              /\ bz.out.adjustments = OneOverwrite(DeltaRow(s, s + 3, 0), 0, 0)
        /\ NoveltyScenario(s, DeltaRow(s + 2, s + 3, 0)) =>
              /\ bz.out.non_novel_deltas = << DeltaRow(s + 2, s + 3, 0) >>
              /\ bz.out.sparse_output = bz.args.expr
              /\ bz.out.adjustments = OneOverwrite(DeltaRow(s + 2, s + 3, 0), 2, 4)

\* the scenario has been loaded with the delta as-of 2014-01-08
NoveltyScenarioWitness ==
    \E s \in BzDays :
        /\ NoveltyScenario(s, DeltaRow(s + 2, s + 3, 0))
        /\ bz.out.adjustments # << >>

\* the retroactive deltas that are alone in their date group (and sid), so
\* that the group's overwrite is built from that delta
LoneRetroactive ==
    { d \in Rows(bz.out.non_novel_deltas) :
        \A e \in Rows(bz.out.non_novel_deltas) :
            (e.sid = d.sid /\ DateGroup(bz.args.dates, e.ts) = DateGroup(bz.args.dates, d.ts))
                => e = d }

\* the overwrites carrying d's value in the list scheduled at d's knowledge date
OverwritesOf(d) ==
    LET list == bz.out.adjustments[DateGroup(bz.args.dates, d.ts)]
    IN  { list[k] : k \in {j \in 1 .. Len(list) : list[j].value = d.v} }

\* the number of requested dates before day x: the position of x in them
PositionOf(x) == Cardinality({k \in 1 .. Len(bz.args.dates) : bz.args.dates[k] < x})

\* d's overwrite covers the rows from the position of its as-of-date up to but
\* not including the position of the earliest of the days in later, or through
\* the last row when later is empty; no overwrite if that leaves no row
CoversUpTo(d, later) ==
    LET lo == PositionOf(d.ad)
        hi == IF later = {} THEN Len(bz.args.dates) - 1
              ELSE PositionOf(SetMin(later)) - 1
    IN  IF lo > hi THEN OverwritesOf(d) = {}
        ELSE /\ Cardinality(OverwritesOf(d)) = 1
             /\ \A o \in OverwritesOf(d) : o.first_row = lo /\ o.last_row = hi

\* C16 as stated: the overwrite of a retroactive delta with as-of-date A covers
\* the dense rows from the position of A up to but not including the position
\* of the next later as-of-date present in the sparse source, and runs through
\* the last requested row when there is none.
OverwriteRunsToNextAsofDate ==
    Loaded =>
        \A d \in LoneRetroactive :
            CoversUpTo(d, {r.ad : r \in {x \in Rows(bz.out.sparse_output) : x.ad > d.ad}})

\* C16 amended: the overwrite covers the dense rows from the position of A up
\* to but not including the position of the next knowledge date (timestamp)
\* later than A among the rows of the merged baseline, and runs through the
\* last requested row when there is none.
OverwriteRunsToNextKnowledgeDate ==
    Loaded =>
        \A d \in LoneRetroactive :
            CoversUpTo(d, {r.ts : r \in {x \in Rows(bz.out.sparse_output) : x.ts > d.ad}})

\* the example of overwrite_from_dates: 5 dense dates, as-of the second of
\* them, no sparse date after it within the range: rows 1, 2, 3, 4
OverwriteRunsToNextKnowledgeDateWitness ==
    /\ Loaded
    /\ Len(bz.args.dates) = 5
    /\ \E d \in LoneRetroactive :
          /\ d.ad = bz.args.dates[2]
          /\ \E o \in OverwritesOf(d) : o.first_row = 1 /\ o.last_row = 4

\* the sid the dense column of the a-th requested asset shows
ColumnSid(a) == IF bz.args.have_sids THEN bz.args.assets[a] ELSE 0

\* the rows of the merged baseline for a sid with a knowledge date on or before d
KnownBy(d, sid) == {r \in Rows(bz.out.sparse_output) : r.sid = sid /\ r.ts <= d}

\* v is missing when rows is empty and else the value of one of the rows with
\* the latest knowledge date
IsLatestOf(v, rows) ==
    IF rows = {} THEN v = NaN
    ELSE \E r \in rows : r.v = v /\ \A x \in rows : x.ts <= r.ts

\* C17 as stated: the dense value for a requested date d and an asset is
\* missing when no merged-baseline row has a knowledge date on or before d,
\* and else is the value of the row with the latest knowledge date <= d.
DenseIsLatestRecord ==
    Loaded =>
        \A i \in 1 .. Len(bz.args.dates) : \A a \in 1 .. Len(bz.args.assets) :
            IsLatestOf(bz.out.dense_output[i][a],
                       KnownBy(bz.args.dates[i], ColumnSid(a)))

\* C17 amended: the dense value is missing when no merged-baseline row with a
\* value has a knowledge date on or before d, and else is the value of the
\* row with the latest knowledge date <= d among the rows that have a value.
DenseIsLatestKnownValue ==
    Loaded =>
        \A i \in 1 .. Len(bz.args.dates) : \A a \in 1 .. Len(bz.args.assets) :
            IsLatestOf(bz.out.dense_output[i][a],
                       {r \in KnownBy(bz.args.dates[i], ColumnSid(a)) : r.v # NaN})

\* a date whose latest row has no value shows an earlier row's value, and an
\* earlier date shows nothing
DenseIsLatestKnownValueWitness ==
    /\ Loaded
    /\ bz.out.dense_output[1][1] = NaN
    /\ \E i \in 1 .. Len(bz.args.dates) :
          /\ bz.out.dense_output[i][1] # NaN
          /\ \E r \in KnownBy(bz.args.dates[i], ColumnSid(1)) :
                /\ r.v = NaN
                /\ \A x \in KnownBy(bz.args.dates[i], ColumnSid(1)) : x.ts <= r.ts

\* C19: get_deltas returns the deltas argument unchanged when it is an
\* expression or any value other than 'auto'; with 'auto' and no sibling found
\* it raises ValueError under raise_, warns and returns None under warn, and
\* returns None without a warning under ignore.
DeltasLookupRule ==
    bz.kind = "got_deltas" =>
        /\ bz.args.deltas # "auto" =>
              /\ bz.out.returned = bz.args.deltas
              /\ bz.out.raised = ""
              /\ ~bz.out.warned
        /\ (bz.args.deltas = "auto" /\ bz.args.lookup # "found") =>
              /\ bz.args.no_deltas_rule = "raise_" =>
                    bz.out.raised = "ValueError" /\ ~bz.out.warned
              /\ bz.args.no_deltas_rule = "warn" =>
                    bz.out.returned = "None" /\ bz.out.raised = "" /\ bz.out.warned
              /\ bz.args.no_deltas_rule = "ignore" =>
                    bz.out.returned = "None" /\ bz.out.raised = "" /\ ~bz.out.warned

\* the lookup of the sibling failed under the rule ignore
DeltasLookupRuleWitness ==
    /\ bz.kind = "got_deltas"
    /\ bz.args.deltas = "auto"
    /\ bz.args.lookup = "AttributeError"
    /\ bz.args.no_deltas_rule = "ignore"
    /\ bz.out.returned = "None"

-----------------------------------------------------------------------------
(* The claims about the cached windows and their corrections *)

\* what a loader with an empty cache returns for the request of the call just made
FreshHistory == HistoryOn(<< >>, last'.assets, last'.start, last'.end, last'.size,
                          last'.field)

\* the call just made was answered by seeking a cached window that was built
\* for an earlier end date
ServedBySeek ==
    /\ last'.kind = "ok"
    /\ last'.hit
    /\ last'.seeks = 1
    /\ NextKey \in DOMAIN built
    /\ built[NextKey].end < last'.end

\* C21: cache transparency of values. For a request whose start is at or after
\* the first available session, the window history returns when it is served by
\* seeking a cached window built for an earlier end date equals the window a
\* loader with an empty cache returns for the same request.
CacheTransparencyOfValues ==
    [][ (ServedBySeek /\ last'.start >= FirstSession)
        => (FreshHistory.ok /\ last'.out = FreshHistory.out) ]_vars

\* the rows of the owned array as the corrections of the trigger rows in
\* `applied' leave them, each correction applied once
AppliedOnce(raw, adjustments, applied) ==
    ApplyPending(raw, adjustments, SortedSeq(applied))

\* the array the window of key k owned when it was built: the fill region and
\* the raw bars
OwnedAtBuild(k) ==
    LET r == built[k]
    IN  WithPreArray(r.start, r.end, k[3], k[2],
            LoadRawArrays(Column(k[2]), EnsureStartIx(r.start),
                          PrefetchEndIx(EnsureEndIx(r.start, r.end)), r.cols))

\* C22: each correction is applied at most once. In every cached window, the
\* owned array is the array that was built with every scheduled correction
\* whose trigger row the cursor has reached (trigger row < the cursor's
\* frontier) applied exactly once and every other correction not applied; a
\* repeated call for the same end date leaves the owned array as it was.
CorrectionsAppliedOnce ==
    /\ \A k \in DOMAIN cache :
         LET w == cache[k].value.window
             reached == {t \in DOMAIN w.adjustments : t < w.anchor}
         IN  /\ w.pending = DOMAIN w.adjustments \ reached
             /\ w.data = AppliedOnce(OwnedAtBuild(k), w.adjustments, reached)
    /\ (last.repeat /\ last.kind = "ok") => last.seeks = 0

\* a repeated call on a window in which one trigger row has been reached, its
\* corrections applied to the owned array, and another is still ahead
CorrectionsAppliedOnceWitness ==
    /\ last.kind = "ok"
    /\ last.repeat
    /\ LastKey \in DOMAIN cache
    /\ LET w == cache[LastKey].value.window
       IN  /\ w.pending # {}
           /\ w.pending # DOMAIN w.adjustments
           /\ w.data # OwnedAtBuild(LastKey)

-----------------------------------------------------------------------------
(* _get_adjustments_in_range applied to any run of calendar days            *)
(*   bz : the call (kind "range": assets, days = cal[first_ix .. last_ix],  *)
(*        field) and, once it has run, the call with the dict it returned   *)

\* what the field argument can be: a field's name, or the column object that
\* _ensure_sliding_window passes
RangeFields == Fields \cup {Column(f) : f \in Fields}

\* the asset orders of the simulation, and asset 3, which has two dividends on
\* one date
RangeAssetSeqs == AssetSeqs \cup { << 3 >>, << 3, 1 >> }

RangeArgs ==
    { [kind |-> "range", assets |-> a, first_ix |-> i, last_ix |-> j, field |-> f] :
        a \in RangeAssetSeqs, i \in 0 .. LastIx, j \in 0 .. LastIx, f \in RangeFields }

RangeInit ==
    /\ cache = << >>
    /\ built = << >>
    /\ last = NoCall
    /\ now = 0
    /\ cfg = [fields |-> {}, sizes |-> {}, seqs |-> {}]
    /\ bz \in {a \in RangeArgs : a.first_ix <= a.last_ix}

GetAdjustmentsStep ==
    /\ bz.kind = "range"
    /\ bz' = [kind |-> "ranged", args |-> bz,
              out |-> GetAdjustmentsInRange(bz.assets, bz.first_ix, bz.last_ix,
                                            bz.field)]
    /\ UNCHANGED << cache, built, last, now, cfg >>

RangeNext == GetAdjustmentsStep

RangeSpec == RangeInit /\ [][RangeNext]_vars

-----------------------------------------------------------------------------
(* The claims about _get_adjustments_in_range *)

Ranged == bz.kind = "ranged"

\* days[0] and days[-1] of the call
RangeStart == CalDate(bz.args.first_ix)
RangeEnd == CalDate(bz.args.last_ix)

\* the kinds of event the call reads for its field
KindsRead(field) ==
    IF field # "volume" THEN {"mergers", "dividends", "splits"} ELSE {"splits"}

\* the events of a sid the call reads: (kind, position in the store's list)
EventsRead(sid) ==
    UNION { {<< kind, n >> : n \in 1 .. Len(GetAdjustmentsForSid(kind, sid))} :
              kind \in KindsRead(bz.args.field) }

EventOf(sid, e) == GetAdjustmentsForSid(e[1], sid)[e[2]]

\* the number of corrections the dict holds for column c under trigger row t
CountAt(t, c) ==
    IF t \in DOMAIN bz.out
    THEN Cardinality({n \in 1 .. Len(bz.out[t]) : bz.out[t][n].first_col = c})
    ELSE 0

\* C23: event range is (start, end]. The dict holds exactly one correction for
\* each event the call reads whose date dt satisfies days[0] < dt <= days[-1]
\* (under the row of dt in days, in the asset's column), and none for an event
\* dated on days[0], before it, or after days[-1].
EventRangeIsHalfOpen ==
    Ranged =>
        \A j \in 1 .. Len(bz.args.assets) : \A d \in Days :
            CountAt(GetLoc(d) - bz.args.first_ix, j - 1) =
                IF RangeStart < d /\ d <= RangeEnd
                THEN Cardinality({e \in EventsRead(bz.args.assets[j]) :
                                     EventOf(bz.args.assets[j], e).dt = d})
                ELSE 0

\* a call whose days start on one event's date and end before another's: the
\* dict is empty although the assets have events
EventRangeIsHalfOpenWitness ==
    /\ Ranged
    /\ bz.out = << >>
    /\ \E j \in 1 .. Len(bz.args.assets) :
          \E e \in EventsRead(bz.args.assets[j]) :
              EventOf(bz.args.assets[j], e).dt = RangeStart
    /\ \E j \in 1 .. Len(bz.args.assets) :
          \E e \in EventsRead(bz.args.assets[j]) :
              EventOf(bz.args.assets[j], e).dt > RangeEnd

\* C24: correction schedule invariant. Every correction of the returned dict
\* is stored under the trigger row t that is the index of its event's date in
\* days, with 1 <= t <= len(days) - 1, and has row_lo = 0, row_hi = t - 1 (so
\* row_lo <= row_hi) and col_lo = col_hi = the position of the event's asset in
\* the request.
CorrectionScheduleInvariant ==
    Ranged =>
        \A t \in DOMAIN bz.out : \A n \in 1 .. Len(bz.out[t]) :
            LET a == bz.out[t][n]
            IN  /\ 1 <= t
                /\ t <= bz.args.last_ix - bz.args.first_ix
                /\ a.first_row = 0
                /\ a.last_row = t - 1
                /\ a.first_row <= a.last_row
                /\ a.first_col = a.last_col
                /\ a.first_col + 1 \in 1 .. Len(bz.args.assets)
                /\ \E e \in EventsRead(bz.args.assets[a.first_col + 1]) :
                      CalDate(bz.args.first_ix + t) =
                          EventOf(bz.args.assets[a.first_col + 1], e).dt

\* a dict with corrections under the first row after days[0] and under the
\* last row of days, for the assets of both columns
CorrectionScheduleInvariantWitness ==
    /\ Ranged
    /\ bz.args.last_ix - bz.args.first_ix > 1
    /\ 1 \in DOMAIN bz.out
    /\ (bz.args.last_ix - bz.args.first_ix) \in DOMAIN bz.out
    /\ \E t \in DOMAIN bz.out : bz.out[t][1].first_col = 0
    /\ \E t \in DOMAIN bz.out : bz.out[t][1].first_col = 1

\* the ratios of the events of one kind of a sid dated d, in the store's order
RatiosOn(kind, sid, d) ==
    LET evs == SelectSeq(GetAdjustmentsForSid(kind, sid), LAMBDA e : e.dt = d)
    IN  [n \in 1 .. Len(evs) |-> evs[n].ratio]

\* the values of the corrections of column c in the list of trigger row t, in
\* the list's order
ValuesAt(t, c) ==
    LET mine == SelectSeq(bz.out[t], LAMBDA a : a.first_col = c)
    IN  [n \in 1 .. Len(mine) |-> mine[n].value]

\* C26: order within a trigger row. For a price field, the corrections of one
\* asset that share a trigger row appear in the row's list as the mergers
\* first, then the dividends, then the splits, each group in the event store's
\* order.
OrderWithinTriggerRow ==
    (Ranged /\ bz.args.field # "volume") =>
        \A t \in DOMAIN bz.out : \A j \in 1 .. Len(bz.args.assets) :
            ValuesAt(t, j - 1) =
                RatiosOn("mergers", bz.args.assets[j], CalDate(bz.args.first_ix + t))
                \o RatiosOn("dividends", bz.args.assets[j], CalDate(bz.args.first_ix + t))
                \o RatiosOn("splits", bz.args.assets[j], CalDate(bz.args.first_ix + t))

\* two dividends and a split of the first asset under one trigger row, whose
\* list also holds a correction of the second asset
OrderWithinTriggerRowWitness ==
    /\ Ranged
    /\ bz.args.field = "close"
    /\ \E t \in DOMAIN bz.out :
          /\ Len(bz.out[t]) = 4
          /\ Len(ValuesAt(t, 0)) = 3
          /\ Len(RatiosOn("dividends", bz.args.assets[1],
                          CalDate(bz.args.first_ix + t))) = 2
          /\ RatiosOn("splits", bz.args.assets[1], CalDate(bz.args.first_ix + t)) # << >>

-----------------------------------------------------------------------------
(* The claims about the windows _ensure_sliding_window builds *)

\* the number of fill rows at the head of the owned array of the window of key k
FillRows(k) ==
    IF built[k].start < FirstSession THEN FillSize(built[k].end, k[3]) ELSE 0

\* row r (0-based) of the owned array of the window of key k holds the bar of
\* date d: the rows after the fill hold cal[cal_start], cal[cal_start + 1], ...
RowHolds(k, r, d) ==
    /\ r >= FillRows(k)
    /\ d = CalDate(cache[k].value.cal_start + r - FillRows(k))

\* row r is dated before d: a fill row, or a row holding an earlier session
RowBefore(k, r, d) ==
    \/ r < FillRows(k)
    \/ CalDate(cache[k].value.cal_start + r - FillRows(k)) < d

\* the dates of the events of a sid, of every kind
EventDates(sid) ==
    UNION { {GetAdjustmentsForSid(kind, sid)[n].dt :
                n \in 1 .. Len(GetAdjustmentsForSid(kind, sid))} :
              kind \in {"mergers", "dividends", "splits"} }

\* C25: corrections are aligned with the owning array. In every window built
\* by _ensure_sliding_window, with or without a fill region at its head, each
\* correction's trigger row is the row of the owned array that holds the bar of
\* the event's date, and the correction covers exactly the rows of that array
\* dated before the event.
CorrectionsAlignedWithArray ==
    \A k \in DOMAIN cache :
        LET w == cache[k].value.window
        IN  \A t \in DOMAIN w.adjustments : \A n \in 1 .. Len(w.adjustments[t]) :
                LET a == w.adjustments[t][n]
                IN  \E d \in EventDates(built[k].cols[a.first_col + 1]) :
                        /\ RowHolds(k, t, d)
                        /\ \A r \in 0 .. (Len(w.data) - 1) :
                              (a.first_row <= r /\ r <= a.last_row)
                                  <=> RowBefore(k, r, d)

-----------------------------------------------------------------------------
(* The daily loader asked for two fields in turn: two keys in its cache *)

\* one strategy that reads both fields of asset 1 with one window size
KeysConfigs ==
    { [fields |-> Fields, sizes |-> {n}, seqs |-> { << 1 >> }] : n \in 1 .. MaxSize }

KeysInit ==
    /\ cache = << >>
    /\ built = << >>
    /\ last = NoCall
    /\ now = 0
    /\ cfg \in KeysConfigs
    /\ bz = NoLoad

\* the end dates it asks for: the reader's sessions up to the day after the
\* split of asset 1, and the last two sessions of the calendar
KeysDays ==
    {d \in Days : (FirstSession <= d /\ d <= SplitDay1 + 1) \/ d >= CalDate(LastIx - 1)}

KeysNext ==
    \E assets \in cfg.seqs, field \in cfg.fields, size \in cfg.sizes, end \in KeysDays :
        History(assets, end, size, field)

KeysSpec == KeysInit /\ [][KeysNext]_vars

\* the entry of key k is the window it was: the same build and the same expiry
SameEntry(k) ==
    /\ cache'[k].expires = cache[k].expires
    /\ cache'[k].value.cal_start = cache[k].value.cal_start
    /\ cache'[k].value.offset = cache[k].value.offset
    /\ cache'[k].value.window.adjustments = cache[k].value.window.adjustments
    /\ built'[k] = [built[k] EXCEPT !.served = built'[k].served]

\* C27: no eviction. Over every history call the set of keys of the cache does
\* not shrink and gains at most the key of the call, each key being an
\* (asset set, field, size) triple with one entry; the entry of the call's key
\* is replaced only by a rebuild of that call, and the entry of every other key
\* is left exactly as it was.
NoEviction ==
    [][ /\ DOMAIN cache \subseteq DOMAIN cache'
        /\ DOMAIN cache' \subseteq DOMAIN cache \cup {NextKey}
        /\ \A k \in DOMAIN cache :
              /\ k # NextKey => cache'[k] = cache[k] /\ built'[k] = built[k]
              /\ (k = NextKey /\ ~SameEntry(k)) => (last'.stored /\ last'.loads = 1)
      ]_vars

\* a rebuild replaced the expired entry of one key while the entry of the other
\* key, expired as well, is still in the cache
NoEvictionWitness ==
    /\ last.kind = "ok"
    /\ last.stored
    /\ built[LastKey].replaced
    /\ \E k \in DOMAIN cache : k # LastKey /\ IsExpired(cache[k], last.end)

\* the call just made had to rebuild its window: its key had no entry, or an
\* expired one
NeedsRebuild ==
    ~CacheHit(cache, last'.assets, last'.end, last'.size, last'.field)

FailedSeekLeavesWrapper ==
    [][ (last'.kind = "error" /\ last'.seeks = 1 /\ last'.hit)
        => ( /\ last'.out = << >>
             /\ NextKey \in DOMAIN cache
             /\ cache'[NextKey].value.current = cache[NextKey].value.current
             /\ cache'[NextKey].value.most_recent_ix =
                    cache[NextKey].value.most_recent_ix )
      ]_vars

\* an out-of-order request failed in the seek of a window that an earlier call
\* had advanced: the window still remembers the end date served before
FailedSeekLeavesWrapperWitness ==
    /\ last.kind = "error"
    /\ last.err = "OutOfOrderSeek"
    /\ last.seeks = 1
    /\ last.hit
    /\ cache[LastKey].value.most_recent_ix = GetLoc(built[LastKey].served)
    /\ built[LastKey].served > built[LastKey].end
    /\ cache[LastKey].value.most_recent_ix # HistoryEndIx(last.end, last.size)

\* C30: returned slices are detached from the owned buffer. The array an
\* earlier call returned (the window's current at that time) reads the same
\* values after a later call has sought the same window, also when that seek
\* applied corrections to the buffer rows the earlier array was taken from.
ReturnedSlicesAreDetached ==
    [][ ( /\ last.kind = "ok"
          /\ LastKey \in DOMAIN cache
          /\ NextKey = LastKey
          /\ last'.hit )
        => ( /\ ReadArray(CurrentObject(cache[LastKey].value),
                          cache[LastKey].value.window.data) = last.out
             /\ ReadArray(CurrentObject(cache[LastKey].value),
                          cache'[LastKey].value.window.data) = last.out )
      ]_vars

\* a call served by a seek that applied the corrections of the row just behind
\* the new frontier: they cover every buffer row of the windows returned before
ReturnedSlicesAreDetachedWitness ==
    /\ last.kind = "ok"
    /\ last.hit
    /\ last.seeks = 1
    /\ built[LastKey].start >= FirstSession
    /\ LET w == cache[LastKey].value.window
       IN  /\ (w.anchor - 1) \in DOMAIN w.adjustments
           /\ w.anchor - 1 >= w.window_length
           /\ w.data # OwnedAtBuild(LastKey)

-----------------------------------------------------------------------------
(* The claims about the blaze loader's dense output and overwrites *)

\* the rows of the merged baseline that carry a value for a sid
ValuedRows(sid) == {r \in Rows(bz.out.sparse_output) : r.sid = sid /\ r.v # NaN}

\* C31: no lookahead in the dense series. The dense value at a requested date
\* d is missing or the value of a merged-baseline row (baseline or novel delta)
\* of that asset whose knowledge date is on or before d, and no row's value
\* shows at a date before its knowledge date; a row whose knowledge date is
\* before the first requested date or on a non-requested day shows at the first
\* requested date on or after it when no other valued row of the asset is
\* known from its knowledge date through that date.
NoLookaheadInDenseSeries ==
    Loaded =>
        \A a \in 1 .. Len(bz.args.assets) :
            /\ \A i \in 1 .. Len(bz.args.dates) :
                  \/ bz.out.dense_output[i][a] = NaN
                  \/ \E r \in ValuedRows(ColumnSid(a)) :
                        r.ts <= bz.args.dates[i] /\ r.v = bz.out.dense_output[i][a]
            /\ \A r \in ValuedRows(ColumnSid(a)) :
                  /\ \A i \in 1 .. Len(bz.args.dates) :
                        bz.args.dates[i] < r.ts => bz.out.dense_output[i][a] # r.v
                  /\ ( /\ PositionOf(r.ts) < Len(bz.args.dates)
                       /\ \A x \in ValuedRows(ColumnSid(a)) :
                             \/ x = r
                             \/ x.ts < r.ts
                             \/ x.ts > bz.args.dates[PositionOf(r.ts) + 1] )
                     => bz.out.dense_output[PositionOf(r.ts) + 1][a] = r.v

\* a row known before the first requested date shows at the first date, and a
\* row known on a non-requested day shows at the next requested date and not at
\* the one before
NoLookaheadInDenseSeriesWitness ==
    /\ Loaded
    /\ \E r \in ValuedRows(ColumnSid(1)) :
          /\ r.ts < bz.args.dates[1]
          /\ bz.out.dense_output[1][1] = r.v
    /\ \E r \in ValuedRows(ColumnSid(1)) : \E i \in 2 .. Len(bz.args.dates) :
          /\ bz.args.dates[i - 1] < r.ts
          /\ r.ts < bz.args.dates[i]
          /\ bz.out.dense_output[i][1] = r.v
          /\ bz.out.dense_output[i - 1][1] # r.v

\* the overwrites of the adjustments dict: (trigger index, overwrite)
AllOverwrites ==
    UNION { {<< t, bz.out.adjustments[t][n] >> : n \in 1 .. Len(bz.out.adjustments[t])} :
              t \in DOMAIN bz.out.adjustments }

\* C32: retroactive overwrites trigger at the knowledge date. Every overwrite
\* of the adjustments dict is scheduled under the dense index of the knowledge
\* date of the non-novel delta it carries the value of (the position of the
\* first requested date on or after it), that index lies in [0, len(dates)),
\* and the overwrite's first row is <= its trigger index.
OverwritesTriggerAtKnowledgeDate ==
    Loaded =>
        /\ \A t \in DOMAIN bz.out.adjustments : 0 <= t /\ t < Len(bz.args.dates)
        /\ \A p \in AllOverwrites :
              /\ p[2].first_row <= p[1]
              /\ \E d \in Rows(bz.out.non_novel_deltas) :
                    /\ d.v = p[2].value
                    /\ PositionOf(d.ts) = p[1]
                    /\ d.ts <= bz.args.dates[p[1] + 1]

\* an overwrite of a delta known on a non-requested day, scheduled at the next
\* requested date and starting rows before it
OverwritesTriggerAtKnowledgeDateWitness ==
    /\ Loaded
    /\ \E d \in LoneRetroactive :
          /\ \A i \in 1 .. Len(bz.args.dates) : bz.args.dates[i] # d.ts
          /\ \E o \in OverwritesOf(d) :
                /\ o.first_row = PositionOf(d.ad)
                /\ o.first_row < PositionOf(d.ts)
                /\ o.last_row >= o.first_row

Overwritten == bz.kind = "overwritten"

\* the number of dense dates before day x
DensePosition(x) ==
    Cardinality({k \in 1 .. Len(bz.args.dense_dates) : bz.args.dense_dates[k] < x})

\* the sparse dates after the as-of date
LaterSparse ==
    {bz.args.sparse_dates[k] : k \in 1 .. Len(bz.args.sparse_dates)}
        \cap {x \in NaT .. (BzLastDay + 1) : x > bz.args.asof}

\* no dense date lies from the as-of date up to the next sparse date after it
NoRowToCover ==
    LaterSparse # {} /\ DensePosition(SetMin(LaterSparse)) <= DensePosition(bz.args.asof)

\* C33: overwrite bounds safety. overwrite_from_dates yields at most one
\* overwrite, and only with 0 <= first_row <= last_row <= len(dense_dates) - 1;
\* it yields nothing when the as-of date is after the requested range or when
\* the next sparse date is not after the first row to cover, and one overwrite
\* for any other as-of date that is a date.
OverwriteBoundsSafety ==
    Overwritten =>
        /\ Len(bz.out) <= 1
        /\ \A n \in 1 .. Len(bz.out) :
              /\ 0 <= bz.out[n].first_row
              /\ bz.out[n].first_row <= bz.out[n].last_row
              /\ bz.out[n].last_row <= Len(bz.args.dense_dates) - 1
        /\ bz.args.asof # NaT =>
              ( bz.out = << >> <=>
                  ( \/ bz.args.asof > bz.args.dense_dates[Len(bz.args.dense_dates)]
                    \/ NoRowToCover ) )

\* an as-of date inside the requested range with a sparse date after it and no
\* requested date in between: nothing is yielded
OverwriteBoundsSafetyWitness ==
    /\ Overwritten
    /\ bz.out = << >>
    /\ bz.args.asof # NaT
    /\ bz.args.asof > bz.args.dense_dates[1]
    /\ bz.args.asof < bz.args.dense_dates[Len(bz.args.dense_dates)]
    /\ NoRowToCover

\* C36: a null as-of date is skipped. overwrite_from_dates yields no overwrite
\* for an as-of date that is NaT, whatever the dense dates, the sparse dates,
\* the columns and the value are.
NullAsofIsSkipped ==
    (Overwritten /\ bz.args.asof = NaT) => bz.out = << >>

\* a NaT as-of date with sparse dates, all of them after the first requested
\* date, and a value
NullAsofIsSkippedWitness ==
    /\ Overwritten
    /\ bz.args.asof = NaT
    /\ bz.out = << >>
    /\ bz.args.value # NaN
    /\ Len(bz.args.sparse_dates) >= 2
    /\ bz.args.sparse_dates[1] > bz.args.dense_dates[1]

\* C34: classification is a partition. overwrite_novel_deltas puts every row
\* of deltas in exactly one of its two outputs (the merged baseline or the
\* non-novel deltas), keeps every baseline row in the merged baseline, adds no
\* other row, and returns the merged baseline ordered by knowledge date
\* non-decreasing.
ClassificationIsPartition ==
    Loaded =>
        /\ Rows(bz.out.sparse_output) \cup Rows(bz.out.non_novel_deltas)
              = Rows(bz.out.baseline) \cup Rows(bz.out.deltas)
        /\ Len(bz.out.sparse_output) + Len(bz.out.non_novel_deltas)
              = Len(bz.out.baseline) + Len(bz.out.deltas)
        /\ Rows(bz.out.sparse_output) \cap Rows(bz.out.non_novel_deltas) = {}
        /\ Rows(bz.out.baseline) \subseteq Rows(bz.out.sparse_output)
        /\ Rows(bz.out.non_novel_deltas) \subseteq Rows(bz.out.deltas)
        /\ \A k \in 1 .. (Len(bz.out.sparse_output) - 1) :
              bz.out.sparse_output[k].ts <= bz.out.sparse_output[k + 1].ts

\* one delta folded into the merged baseline ahead of a baseline row known
\* later, and one delta returned as non-novel
ClassificationIsPartitionWitness ==
    /\ Loaded
    /\ Len(bz.out.deltas) = 2
    /\ Len(bz.out.non_novel_deltas) = 1
    /\ \E k \in 1 .. (Len(bz.out.sparse_output) - 1) :
          /\ bz.out.sparse_output[k] \in Rows(bz.out.deltas)
          /\ bz.out.sparse_output[k + 1] \in Rows(bz.out.baseline)
          /\ bz.out.sparse_output[k].ts < bz.out.sparse_output[k + 1].ts

\* the deltas of the load whose value the overwrite o carries
CarriedBy(o) == {d \in Rows(bz.out.non_novel_deltas) : d.v = o.value}

\* C35: overwrite column span. An overwrite built for a dataset without a sid
\* column spans all the requested asset columns, [0, len(assets) - 1]; an
\* overwrite built for a dataset with a sid column spans the single column
\* that is the position of its delta's sid in the requested assets.
OverwriteColumnSpan ==
    Loaded =>
        \A p \in AllOverwrites :
            IF bz.args.have_sids
            THEN /\ p[2].first_col = p[2].last_col
                 /\ CarriedBy(p[2]) # {}
                 /\ \A d \in CarriedBy(p[2]) :
                       bz.args.assets[p[2].first_col + 1] = d.sid
            ELSE /\ p[2].first_col = 0
                 /\ p[2].last_col = Len(bz.args.assets) - 1

\* a load with a sid column that builds an overwrite for each of the two
\* requested assets, which are not requested in the order of their sids
OverwriteColumnSpanWitness ==
    /\ Loaded
    /\ bz.args.have_sids
    /\ bz.args.assets = << 2, 1 >>
    /\ \E p \in AllOverwrites, q \in AllOverwrites :
          /\ p[2].first_col = 0 /\ \E d \in CarriedBy(p[2]) : d.sid = 2
          /\ q[2].first_col = 1 /\ \E d \in CarriedBy(q[2]) : d.sid = 1

\* the deltas of the call's deltas table for assets that were not requested
UnrequestedDeltas ==
    {d \in Rows(bz.args.deltas) : d.sid \notin AssetSet(bz.args.assets)}

\* the same call on a deltas table without the rows of unrequested assets
LoadWithoutUnrequested ==
    LoadDataset(bz.args.expr,
                SelectSeq(bz.args.deltas, LAMBDA d : d.sid \in AssetSet(bz.args.assets)),
                bz.args.dates, bz.args.assets, bz.args.have_sids)

\* C37: deltas for unrequested assets are ignored. In a load with a sid
\* column the call returns, its dense output and its overwrites are those of
\* the same call without the deltas of unrequested assets, and no dense value
\* and no overwrite carries the value of such a delta.
UnrequestedDeltasAreIgnored ==
    (Loaded /\ bz.args.have_sids) =>
        /\ bz.out.raised = "none"
        /\ bz.out.dense_output = LoadWithoutUnrequested.dense_output
        /\ bz.out.adjustments = LoadWithoutUnrequested.adjustments
        /\ \A d \in UnrequestedDeltas :
              /\ \A p \in AllOverwrites : p[2].value # d.v
              /\ \A i \in 1 .. Len(bz.args.dates), a \in 1 .. Len(bz.args.assets) :
                    bz.out.dense_output[i][a] # d.v

\* a load with a sid column whose deltas table holds, within the queried
\* dates, a retroactive delta of an unrequested asset next to a delta of a
\* requested asset that yields an overwrite
UnrequestedDeltasAreIgnoredWitness ==
    /\ Loaded
    /\ bz.args.have_sids
    /\ \E d \in UnrequestedDeltas :
          /\ d \in Rows(CollectExpr(bz.args.deltas, bz.args.dates, TRUE))
          /\ ~IsNovel(d, bz.args.dates)
    /\ AllOverwrites # {}

====
